---- MODULE Spec2Model ----
(***************************************************************************)
(* A model of the collaborative document editor: the operations package    *)
(* (Operation, Apply, Transform), the Document container and the Hub with  *)
(* its Clients.  Strings are sequences of one-character strings; byte      *)
(* offsets of the Go code are 0-based, sequences here are 1-based.         *)
(***************************************************************************)
EXTENDS Integers, Sequences, FiniteSets, TLC

VARIABLES
    \* ---- operations package: inputs and outputs of one Transform run
    otDoc, otA, otB, otPhase, otOut,
    \* ---- the Operation objects in memory (the caller's two arguments and
    \* those Transform allocates) and what each Transform call returned
    otMem, otRet,
    \* ---- one Document shared by goroutines: its fields and its RWMutex
    dContent, dVersion, dLastModified, muWriter, muReaders,
    \* ---- the goroutines calling the Document: position, arguments, locals
    tPc, tArg, tReg, tRet,
    \* ---- time.Now() as a logical clock, and the record of what was committed
    clock, nCalls, nSucceeded, nFailed, history,
    \* ---- the Hub: h.clients, h.documents, each client's send channel, the
    \* goroutines blocked in h.Unregister, the quit channel and the Run loop
    clients, documents, send, sendClosed, unregPending, quitClosed, hubRunning,
    \* ---- the clients' side: who called Register, whose ReadPump has ended,
    \* whose websocket connection is closed, how each WritePump has returned
    joined, readerDone, connClosed, writerExit,
    \* ---- bookkeeping: events handled, the last one, queues found full
    nBroadcasts, lastEvent, fullSeen,
    \* ---- the editors behind the clients: the text each shows, the message
    \* it has handed to h.Broadcast, the relayed operations it has applied
    pText, pOut, pApplied,
    \* ---- finer steps of the pumps and of the quit case: the frames each
    \* WritePump has written, the message it holds between its receive and
    \* its write, and where closeAllClients is in its loop
    wFrames, wHeld, closing,
    \* ---- bookkeeping: the clients a user_count push found full, and those
    \* an operation fan-out found full
    countSkipped, opDropped

otVars == <<otDoc, otA, otB, otPhase, otOut, otMem, otRet>>

docVars == <<dContent, dVersion, dLastModified, muWriter, muReaders,
             tPc, tArg, tReg, tRet, clock, nCalls, nSucceeded, nFailed, history>>

hubVars == <<clients, documents, send, sendClosed, unregPending, quitClosed,
             hubRunning, joined, readerDone, connClosed, writerExit,
             nBroadcasts, lastEvent, fullSeen>>

syncVars == <<pText, pOut, pApplied>>

stepVars == <<wFrames, wHeld, closing, countSkipped, opDropped>>

vars == <<otVars, docVars, hubVars, syncVars, stepVars>>

\* what the steps of one part of the program leave alone
nonOtVars == <<docVars, hubVars, syncVars, stepVars>>
nonDocVars == <<otVars, hubVars, syncVars, stepVars>>
nonHubVars == <<otVars, docVars, syncVars, stepVars>>
nonSyncVars == <<otVars, docVars, stepVars>>
nonHubAndStepVars == <<otVars, docVars, syncVars>>

-----------------------------------------------------------------------------
(* Bounds *)

MaxDocLen == 3
MaxTextLen == 2
MaxVersion == 1
MaxCalls == 4
SendCap == 2
MaxBroadcasts == 1
MaxTransformCalls == 2

-----------------------------------------------------------------------------
(* Strings *)

Chars == {"a", "b"}

RECURSIVE StringsOfLen(_)
StringsOfLen(n) ==
    IF n = 0 THEN {<<>>}
    ELSE {Append(s, c) : s \in StringsOfLen(n - 1), c \in Chars}

StringsUpTo(n) == UNION {StringsOfLen(k) : k \in 0..n}

\* Go slice expressions doc[:p], doc[p:] and doc[p:q] on a 0-based string
Prefix(doc, p) == SubSeq(doc, 1, p)
Suffix(doc, p) == SubSeq(doc, p + 1, Len(doc))
Slice(doc, p, q) == SubSeq(doc, p + 1, q)

min(a, b) == IF a < b THEN a ELSE b

-----------------------------------------------------------------------------
(* Operation *)

OpInsert == "insert"
OpDelete == "delete"
OpRetain == "retain"

Operation(t, p, txt, v) == [type |-> t, position |-> p, text |-> txt, version |-> v]

NewInsertOp(p, txt, v) == Operation(OpInsert, p, txt, v)
NewDeleteOp(p, txt, v) == Operation(OpDelete, p, txt, v)

\* a nil *Operation
NilOp == Operation("nil", 0, <<>>, 0)

Length(op) == Len(op.text)

ValidateIgnoresVersion(op) ==
    IF op.position < 0 THEN FALSE
    ELSE IF op.type \in {OpInsert, OpDelete} /\ op.text = <<>> THEN FALSE
    ELSE IF op.type \notin {OpInsert, OpDelete, OpRetain} THEN FALSE
    ELSE TRUE

\* Validate returns nil (TRUE here) or an error (FALSE)
Validate(op) ==
    IF op.position < 0 THEN FALSE
    ELSE IF op.type \in {OpInsert, OpDelete} /\ op.text = <<>> THEN FALSE
    ELSE IF op.type \notin {OpInsert, OpDelete, OpRetain} THEN FALSE
    ELSE IF op.version < 0 THEN FALSE
    ELSE TRUE

-----------------------------------------------------------------------------
(* Apply: the result is (string, error); on an error the string is "" *)

ApplyErr == [ok |-> FALSE, doc |-> <<>>]
ApplyOk(d) == [ok |-> TRUE, doc |-> d]

applyInsertAtFront(doc, op) ==
    IF op.position < 0 \/ op.position > Len(doc) THEN ApplyErr
    ELSE ApplyOk(op.text \o doc)

applyInsertRejectsEnd(doc, op) ==
    IF op.position < 0 \/ op.position >= Len(doc) THEN ApplyErr
    ELSE ApplyOk(Prefix(doc, op.position) \o op.text \o Suffix(doc, op.position))

applyInsert(doc, op) ==
    IF op.position < 0 \/ op.position > Len(doc) THEN ApplyErr
    ELSE ApplyOk(Prefix(doc, op.position) \o op.text \o Suffix(doc, op.position))

applyDeleteAnyText(doc, op) ==
    IF op.position < 0 \/ op.position >= Len(doc) THEN ApplyErr
    ELSE IF op.position + Length(op) > Len(doc) THEN ApplyErr
    ELSE ApplyOk(Prefix(doc, op.position) \o Suffix(doc, op.position + Length(op)))

applyDelete(doc, op) ==
    IF op.position < 0 \/ op.position >= Len(doc) THEN ApplyErr
    ELSE IF op.position + Length(op) > Len(doc) THEN ApplyErr
    ELSE IF Slice(doc, op.position, op.position + Length(op)) # op.text THEN ApplyErr
    ELSE ApplyOk(Prefix(doc, op.position) \o Suffix(doc, op.position + Length(op)))

Apply(doc, op) ==
    IF op = NilOp THEN ApplyErr
    ELSE IF ~Validate(op) THEN ApplyErr
    ELSE IF op.type = OpInsert THEN applyInsert(doc, op)
    ELSE IF op.type = OpDelete THEN applyDelete(doc, op)
    ELSE IF op.type = OpRetain THEN ApplyOk(doc)
    ELSE ApplyErr

\* ApplyAll folds Apply over ops from the left; the first error ends it
RECURSIVE ApplyAll(_, _)
ApplyAll(doc, ops) ==
    IF ops = <<>> THEN ApplyOk(doc)
    ELSE LET r == Apply(doc, Head(ops)) IN
         IF ~r.ok THEN ApplyErr ELSE ApplyAll(r.doc, Tail(ops))

-----------------------------------------------------------------------------
(* Transform: the transform* helpers mutate the pair (op1Prime, op2Prime)  *)
(* in place; here each returns the pair after its assignments.             *)

Pair(x, y) == [a |-> x, b |-> y]

transformInsertInsertTieShiftsOp1(op1, op2) ==
    IF op1.position < op2.position
        THEN Pair(op1, [op2 EXCEPT !.position = op2.position + Length(op1)])
    ELSE Pair([op1 EXCEPT !.position = op1.position + Length(op2)], op2)

transformInsertInsert(op1, op2) ==
    IF op1.position < op2.position
        THEN Pair(op1, [op2 EXCEPT !.position = op2.position + Length(op1)])
    ELSE IF op1.position > op2.position
        THEN Pair([op1 EXCEPT !.position = op1.position + Length(op2)], op2)
    ELSE Pair(op1, [op2 EXCEPT !.position = op2.position + Length(op1)])

\* returns [a |-> insert', b |-> delete']
transformInsertDelete(insert, delete) ==
    IF insert.position <= delete.position
        THEN Pair(insert, [delete EXCEPT !.position = delete.position + Length(insert)])
    ELSE IF insert.position > delete.position + Length(delete)
        THEN Pair([insert EXCEPT !.position = insert.position - Length(delete)], delete)
    ELSE Pair([insert EXCEPT !.position = delete.position], delete)

\* returns [a |-> delete', b |-> insert']
transformDeleteInsert(delete, insert) ==
    LET r == transformInsertDelete(insert, delete) IN Pair(r.b, r.a)

\* the clipping of the later-starting delete (op) to what the other left
ClipDelete(op, start, overlap) ==
    IF overlap > 0 /\ overlap < Length(op)
        THEN [op EXCEPT !.position = start, !.text = Suffix(op.text, overlap)]
    ELSE IF overlap >= Length(op)
        THEN [op EXCEPT !.position = start, !.text = <<>>]
    ELSE [op EXCEPT !.position = start]

transformDeleteDeleteShiftsByOwnLength(op1, op2) ==
    LET op1Start == op1.position
        op1End == op1.position + Length(op1)
        op2Start == op2.position
        op2End == op2.position + Length(op2)
    IN  IF op1End <= op2Start
            THEN Pair(op1, [op2 EXCEPT !.position = op2.position - Length(op2)])
        ELSE IF op2End <= op1Start
            THEN Pair([op1 EXCEPT !.position = op1.position - Length(op1)], op2)
        ELSE IF op1Start = op2Start /\ op1End = op2End
            THEN Pair([op1 EXCEPT !.text = <<>>], [op2 EXCEPT !.text = <<>>])
        ELSE IF op2Start < op1Start
            THEN Pair(ClipDelete(op1, op2Start, min(op1End, op2End) - op1Start), op2)
        ELSE Pair(op1, ClipDelete(op2, op1Start, min(op1End, op2End) - op2Start))

transformDeleteDelete(op1, op2) ==
    LET op1Start == op1.position
        op1End == op1.position + Length(op1)
        op2Start == op2.position
        op2End == op2.position + Length(op2)
    IN  IF op1End <= op2Start
            THEN Pair(op1, [op2 EXCEPT !.position = op2.position - Length(op1)])
        ELSE IF op2End <= op1Start
            THEN Pair([op1 EXCEPT !.position = op1.position - Length(op2)], op2)
        ELSE IF op1Start = op2Start /\ op1End = op2End
            THEN Pair([op1 EXCEPT !.text = <<>>], [op2 EXCEPT !.text = <<>>])
        ELSE IF op2Start < op1Start
            THEN Pair(ClipDelete(op1, op2Start, min(op1End, op2End) - op1Start), op2)
        ELSE Pair(op1, ClipDelete(op2, op1Start, min(op1End, op2End) - op2Start))

TransformErr == [ok |-> FALSE, a |-> NilOp, b |-> NilOp]
TransformOk(r) == [ok |-> TRUE, a |-> r.a, b |-> r.b]

Transform(op1, op2) ==
    IF op1 = NilOp \/ op2 = NilOp THEN TransformErr
    ELSE IF ~Validate(op1) THEN TransformErr
    ELSE IF ~Validate(op2) THEN TransformErr
    ELSE LET op1Prime == [op1 EXCEPT !.version = op1.version + 1]
             op2Prime == [op2 EXCEPT !.version = op2.version + 1]
         IN  IF op1.type = OpInsert /\ op2.type = OpInsert
                 THEN TransformOk(transformInsertInsert(op1Prime, op2Prime))
             ELSE IF op1.type = OpInsert /\ op2.type = OpDelete
                 THEN TransformOk(transformInsertDelete(op1Prime, op2Prime))
             ELSE IF op1.type = OpDelete /\ op2.type = OpInsert
                 THEN TransformOk(transformDeleteInsert(op1Prime, op2Prime))
             ELSE IF op1.type = OpDelete /\ op2.type = OpDelete
                 THEN TransformOk(transformDeleteDelete(op1Prime, op2Prime))
             ELSE TransformErr

\* Transform on pointers.  An *Operation is a reference into the memory
\* mem, NilRef being nil; op1Prime and op2Prime are two new objects
\* (&Operation{...}) at the free references free and free + 1, and they are
\* what the transform* helpers assign to and what is returned.
NilRef == 0
Refs == 1..(2 + 2 * MaxTransformCalls)

Deref(mem, p) == IF p = NilRef THEN NilOp ELSE mem[p]

TransformRefsInPlace(mem, p1, p2, free) ==
    LET tr == Transform(Deref(mem, p1), Deref(mem, p2)) IN
    IF ~tr.ok THEN [ok |-> FALSE, a |-> NilRef, b |-> NilRef, mem |-> mem]
    ELSE [ok |-> TRUE, a |-> p1, b |-> p2,
          mem |-> [mem EXCEPT ![p1] = tr.a, ![p2] = tr.b]]

TransformRefs(mem, p1, p2, free) ==
    LET tr == Transform(Deref(mem, p1), Deref(mem, p2)) IN
    IF ~tr.ok THEN [ok |-> FALSE, a |-> NilRef, b |-> NilRef, mem |-> mem]
    ELSE [ok |-> TRUE, a |-> free, b |-> free + 1,
          mem |-> [mem EXCEPT ![free] = tr.a, ![free + 1] = tr.b]]

-----------------------------------------------------------------------------
(* Document: content, version, lastModified under a sync.RWMutex.  Each    *)
(* statement of a method is one step of the calling goroutine, so that the *)
(* mutex, not the granularity of the model, is what makes a call atomic.   *)

Threads == {"t1", "t2", "t3"}
NoThread == "none"

NoArg == [content |-> <<>>, op |-> NilOp]
\* entry records the fields as an ApplyOperation call found them when it
\* took the lock; it is history kept for the call's duration, not a Go local
NoEntry == [c |-> <<>>, v |-> 0, m |-> 0]
NoReg == [newContent |-> <<>>, loaded |-> 0, c |-> <<>>, v |-> 0, entry |-> NoEntry]
NoRet == [set |-> FALSE, c |-> <<>>, v |-> 0, ok |-> TRUE]

\* sync.RWMutex: Lock waits for the writer and all readers to leave,
\* RLock waits for the writer
CanLock == muWriter = NoThread /\ muReaders = {}
CanRLock == muWriter = NoThread

DocIdle ==
    /\ dContent = <<>>
    /\ dVersion = 0
    /\ dLastModified = 0
    /\ muWriter = NoThread
    /\ muReaders = {}
    /\ tPc = [t \in Threads |-> "idle"]
    /\ tArg = [t \in Threads |-> NoArg]
    /\ tReg = [t \in Threads |-> NoReg]
    /\ tRet = [t \in Threads |-> NoRet]
    /\ clock = 1
    /\ nCalls = 0
    /\ nSucceeded = 0
    /\ nFailed = 0
    /\ history = <<>>

\* the goroutine moves on to its next statement; a step of a Document
\* method touches nothing outside the Document and its callers
Goto(t, label) ==
    /\ tPc' = [tPc EXCEPT ![t] = label]
    /\ UNCHANGED nonDocVars

\* ---- SetContent(content)
SetContentWithoutLock(t, content) ==
    /\ tPc[t] = "idle"
    /\ nCalls < MaxCalls
    /\ nCalls' = nCalls + 1
    /\ muWriter' = t
    /\ tArg' = [tArg EXCEPT ![t] = [NoArg EXCEPT !.content = content]]
    /\ tReg' = [tReg EXCEPT ![t] = [NoReg EXCEPT !.newContent = content]]
    /\ tRet' = [tRet EXCEPT ![t] = NoRet]
    /\ Goto(t, "sc_content")
    /\ UNCHANGED <<dContent, dVersion, dLastModified, muReaders, clock,
                   nSucceeded, nFailed, history>>

SetContentLock(t, content) ==
    /\ tPc[t] = "idle"
    /\ nCalls < MaxCalls
    /\ nCalls' = nCalls + 1
    /\ CanLock
    /\ muWriter' = t
    /\ tArg' = [tArg EXCEPT ![t] = [NoArg EXCEPT !.content = content]]
    /\ tReg' = [tReg EXCEPT ![t] = [NoReg EXCEPT !.newContent = content]]
    /\ tRet' = [tRet EXCEPT ![t] = NoRet]
    /\ Goto(t, "sc_content")
    /\ UNCHANGED <<dContent, dVersion, dLastModified, muReaders, clock,
                   nSucceeded, nFailed, history>>

\* d.content = content
SetContentStore(t) ==
    /\ tPc[t] = "sc_content"
    /\ dContent' = tArg[t].content
    /\ Goto(t, "sc_load")
    /\ UNCHANGED <<nCalls, dVersion, dLastModified, muWriter, muReaders, tArg, tReg, tRet,
                   clock, nSucceeded, nFailed, history>>

\* d.version++ reads the field ...
SetContentLoadVersion(t) ==
    /\ tPc[t] = "sc_load"
    /\ tReg' = [tReg EXCEPT ![t].loaded = dVersion]
    /\ Goto(t, "sc_inc")
    /\ UNCHANGED <<nCalls, dContent, dVersion, dLastModified, muWriter, muReaders, tArg, tRet,
                   clock, nSucceeded, nFailed, history>>

\* ... and writes it back incremented: the mutation is committed
SetContentStoreVersion(t) ==
    /\ tPc[t] = "sc_inc"
    /\ dVersion' = tReg[t].loaded + 1
    /\ history' = Append(history, [v |-> tReg[t].loaded + 1, c |-> tReg[t].newContent])
    /\ Goto(t, "sc_stamp")
    /\ UNCHANGED <<nCalls, dContent, dLastModified, muWriter, muReaders, tArg, tReg, tRet,
                   clock, nSucceeded, nFailed>>

\* d.lastModified = time.Now()
SetContentStamp(t) ==
    /\ tPc[t] = "sc_stamp"
    /\ dLastModified' = clock
    /\ clock' = clock + 1
    /\ Goto(t, "sc_unlock")
    /\ UNCHANGED <<nCalls, dContent, dVersion, muWriter, muReaders, tArg, tReg, tRet,
                   nSucceeded, nFailed, history>>

\* the deferred d.mu.Unlock()
SetContentUnlock(t) ==
    /\ tPc[t] = "sc_unlock"
    /\ muWriter' = NoThread
    /\ nSucceeded' = nSucceeded + 1
    /\ Goto(t, "idle")
    /\ UNCHANGED <<nCalls, dContent, dVersion, dLastModified, muReaders, tArg, tReg, tRet,
                   clock, nFailed, history>>

\* ---- ApplyOperation(op)
ApplyOperationLock(t, op) ==
    /\ tPc[t] = "idle"
    /\ nCalls < MaxCalls
    /\ nCalls' = nCalls + 1
    /\ CanLock
    /\ muWriter' = t
    /\ tArg' = [tArg EXCEPT ![t] = [NoArg EXCEPT !.op = op]]
    /\ tReg' = [tReg EXCEPT ![t] =
                   [NoReg EXCEPT !.entry =
                       [c |-> dContent, v |-> dVersion, m |-> dLastModified]]]
    /\ tRet' = [tRet EXCEPT ![t] = NoRet]
    /\ Goto(t, "ao_apply")
    /\ UNCHANGED <<dContent, dVersion, dLastModified, muReaders, clock,
                   nSucceeded, nFailed, history>>

\* returns the bumped version with the error
ApplyOperationApplyReturnsNextVersion(t) ==
    /\ tPc[t] = "ao_apply"
    /\ LET r == Apply(dContent, tArg[t].op) IN
       IF r.ok
       THEN /\ tReg' = [tReg EXCEPT ![t].newContent = r.doc]
            /\ Goto(t, "ao_content")
            /\ UNCHANGED <<tRet, muWriter, nFailed>>
       ELSE /\ tRet' = [tRet EXCEPT ![t] =
                           [set |-> TRUE, c |-> <<>>, v |-> dVersion + 1, ok |-> FALSE]]
            /\ muWriter' = NoThread
            /\ nFailed' = nFailed + 1
            /\ Goto(t, "idle")
            /\ tReg' = [tReg EXCEPT ![t].entry = NoEntry]
    /\ UNCHANGED <<nCalls, dContent, dVersion, dLastModified, muReaders, tArg, clock,
                   nSucceeded, history>>

\* newContent, err := operations.Apply(d.content, op); on an error the call
\* returns ("", d.version, err) and the deferred Unlock runs
ApplyOperationApply(t) ==
    /\ tPc[t] = "ao_apply"
    /\ LET r == Apply(dContent, tArg[t].op) IN
       IF r.ok
       THEN /\ tReg' = [tReg EXCEPT ![t].newContent = r.doc]
            /\ Goto(t, "ao_content")
            /\ UNCHANGED <<tRet, muWriter, nFailed>>
       ELSE /\ tRet' = [tRet EXCEPT ![t] =
                           [set |-> TRUE, c |-> <<>>, v |-> dVersion, ok |-> FALSE]]
            /\ muWriter' = NoThread
            /\ nFailed' = nFailed + 1
            /\ Goto(t, "idle")
            /\ tReg' = [tReg EXCEPT ![t].entry = NoEntry]
    /\ UNCHANGED <<nCalls, dContent, dVersion, dLastModified, muReaders, tArg, clock,
                   nSucceeded, history>>

\* d.content = newContent
ApplyOperationStore(t) ==
    /\ tPc[t] = "ao_content"
    /\ dContent' = tReg[t].newContent
    /\ Goto(t, "ao_load")
    /\ UNCHANGED <<nCalls, dVersion, dLastModified, muWriter, muReaders, tArg, tReg, tRet,
                   clock, nSucceeded, nFailed, history>>

ApplyOperationLoadVersion(t) ==
    /\ tPc[t] = "ao_load"
    /\ tReg' = [tReg EXCEPT ![t].loaded = dVersion]
    /\ Goto(t, "ao_inc")
    /\ UNCHANGED <<nCalls, dContent, dVersion, dLastModified, muWriter, muReaders, tArg, tRet,
                   clock, nSucceeded, nFailed, history>>

ApplyOperationStoreVersion(t) ==
    /\ tPc[t] = "ao_inc"
    /\ dVersion' = tReg[t].loaded + 1
    /\ history' = Append(history, [v |-> tReg[t].loaded + 1, c |-> tReg[t].newContent])
    /\ Goto(t, "ao_stamp")
    /\ UNCHANGED <<nCalls, dContent, dLastModified, muWriter, muReaders, tArg, tReg, tRet,
                   clock, nSucceeded, nFailed>>

ApplyOperationStamp(t) ==
    /\ tPc[t] = "ao_stamp"
    /\ dLastModified' = clock
    /\ clock' = clock + 1
    /\ Goto(t, "ao_return")
    /\ UNCHANGED <<nCalls, dContent, dVersion, muWriter, muReaders, tArg, tReg, tRet,
                   nSucceeded, nFailed, history>>

\* return newContent, d.version, nil; the deferred Unlock runs
ApplyOperationReturn(t) ==
    /\ tPc[t] = "ao_return"
    /\ tRet' = [tRet EXCEPT ![t] =
                   [set |-> TRUE, c |-> tReg[t].newContent, v |-> dVersion, ok |-> TRUE]]
    /\ muWriter' = NoThread
    /\ nSucceeded' = nSucceeded + 1
    /\ tReg' = [tReg EXCEPT ![t].entry = NoEntry]
    /\ Goto(t, "idle")
    /\ UNCHANGED <<nCalls, dContent, dVersion, dLastModified, muReaders, tArg,
                   clock, nFailed, history>>

\* ---- GetContentAndVersion()
GetContentAndVersionWithoutRLock(t) ==
    /\ tPc[t] = "idle"
    /\ nCalls < MaxCalls
    /\ nCalls' = nCalls + 1
    /\ muReaders' = muReaders \cup {t}
    /\ tArg' = [tArg EXCEPT ![t] = NoArg]
    /\ tReg' = [tReg EXCEPT ![t] = NoReg]
    /\ tRet' = [tRet EXCEPT ![t] = NoRet]
    /\ Goto(t, "gcv_content")
    /\ UNCHANGED <<dContent, dVersion, dLastModified, muWriter, clock,
                   nSucceeded, nFailed, history>>

GetContentAndVersionRLock(t) ==
    /\ tPc[t] = "idle"
    /\ nCalls < MaxCalls
    /\ nCalls' = nCalls + 1
    /\ CanRLock
    /\ muReaders' = muReaders \cup {t}
    /\ tArg' = [tArg EXCEPT ![t] = NoArg]
    /\ tReg' = [tReg EXCEPT ![t] = NoReg]
    /\ tRet' = [tRet EXCEPT ![t] = NoRet]
    /\ Goto(t, "gcv_content")
    /\ UNCHANGED <<dContent, dVersion, dLastModified, muWriter, clock,
                   nSucceeded, nFailed, history>>

\* return d.content, d.version evaluates the two fields one after the other
GetContentAndVersionLoadContent(t) ==
    /\ tPc[t] = "gcv_content"
    /\ tReg' = [tReg EXCEPT ![t].c = dContent]
    /\ Goto(t, "gcv_version")
    /\ UNCHANGED <<nCalls, dContent, dVersion, dLastModified, muWriter, muReaders, tArg, tRet,
                   clock, nSucceeded, nFailed, history>>

GetContentAndVersionLoadVersion(t) ==
    /\ tPc[t] = "gcv_version"
    /\ tReg' = [tReg EXCEPT ![t].v = dVersion]
    /\ Goto(t, "gcv_return")
    /\ UNCHANGED <<nCalls, dContent, dVersion, dLastModified, muWriter, muReaders, tArg, tRet,
                   clock, nSucceeded, nFailed, history>>

\* the deferred d.mu.RUnlock()
GetContentAndVersionReturn(t) ==
    /\ tPc[t] = "gcv_return"
    /\ tRet' = [tRet EXCEPT ![t] =
                   [set |-> TRUE, c |-> tReg[t].c, v |-> tReg[t].v, ok |-> TRUE]]
    /\ muReaders' = muReaders \ {t}
    /\ Goto(t, "idle")
    /\ UNCHANGED <<nCalls, dContent, dVersion, dLastModified, muWriter, tArg, tReg,
                   clock, nSucceeded, nFailed, history>>

-----------------------------------------------------------------------------
(* Document as the Hub uses it: the hub loop is the only caller, so each   *)
(* method is one atomic step.  lastModified is never read by the hub and   *)
(* is left out of the record.                                              *)

NewDocument == [content |-> <<>>, version |-> 0]

SetContentKeepsVersion(doc, content) == [content |-> content, version |-> doc.version]

SetContentStartsOver(doc, content) == [content |-> content, version |-> 0]

SetContent(doc, content) == [content |-> content, version |-> doc.version + 1]

ApplyOperationBumpsOnError(doc, op) ==
    LET r == Apply(doc.content, op) IN
    IF ~r.ok
        THEN [ok |-> FALSE, content |-> <<>>, version |-> doc.version + 1,
              doc |-> [content |-> doc.content, version |-> doc.version + 1]]
    ELSE [ok |-> TRUE, content |-> r.doc, version |-> doc.version + 1,
          doc |-> [content |-> r.doc, version |-> doc.version + 1]]

\* (newContent, version, err) and the Document afterwards
ApplyOperation(doc, op) ==
    LET r == Apply(doc.content, op) IN
    IF ~r.ok
        THEN [ok |-> FALSE, content |-> <<>>, version |-> doc.version, doc |-> doc]
    ELSE [ok |-> TRUE, content |-> r.doc, version |-> doc.version + 1,
          doc |-> [content |-> r.doc, version |-> doc.version + 1]]

-----------------------------------------------------------------------------
(* Message and its bytes.  Bytes are modelled by what decoding makes of    *)
(* them: json says whether they decode as a structured Message, msg is the *)
(* decoded struct (for plain text: a content message holding the text),    *)
(* and canon says whether they are exactly what json.Marshal writes for    *)
(* msg, which is not so for bytes with another field order, spacing or     *)
(* extra fields.                                                           *)

MsgTypeContent == "content"
MsgTypeOperation == "operation"
MsgTypeUserCount == "user_count"

Message(t, d, c, op, n) ==
    [type |-> t, document_id |-> d, content |-> c, operation |-> op, user_count |-> n]

NewContentMessage(content) == Message(MsgTypeContent, "", content, NilOp, 0)
NewOperationMessage(op) == Message(MsgTypeOperation, "", <<>>, op, 0)
NewUserCountMessage(count) == Message(MsgTypeUserCount, "", <<>>, NilOp, count)

Bytes(json, canon, msg) == [json |-> json, canon |-> canon, msg |-> msg]

ToBytes(msg) == Bytes(TRUE, TRUE, msg)

MessageFromBytes(data) ==
    IF data.json THEN [ok |-> TRUE, msg |-> data.msg]
    ELSE [ok |-> FALSE, msg |-> NewContentMessage(<<>>)]

IsLegacyContent(data) == ~data.json

HandleLegacyContent(data) == NewContentMessage(data.msg.content)

NoBytes == Bytes(FALSE, FALSE, NewContentMessage(<<>>))

-----------------------------------------------------------------------------
(* Client and Hub *)

Clients == {"c1", "c2", "c3"}
NoClient == "nil"
DocIDs == {"A", "B"}

\* client.documentID, fixed by NewClient
DocumentIDOf(c) == IF c = "c3" THEN "B" ELSE "A"

\* a message in a send channel, with the routing decision that put it there:
\* the document it was fanned out for, or AllDocuments
AllDocuments == "*"
Entry(data, d) == [data |-> data, routedFor |-> d]

\* the event the hub loop handled last: its case, the client (the sender of
\* a broadcast) and the path taken
NoEvent == [kind |-> "none", client |-> NoClient, path |-> "none"]
Event(k, c, p) == [kind |-> k, client |-> c, path |-> p]

\* NewHub
HubIdle ==
    /\ clients = {}
    /\ documents = << >>
    /\ send = [c \in Clients |-> <<>>]
    /\ sendClosed = [c \in Clients |-> FALSE]
    /\ unregPending = [c \in Clients |-> 0]
    /\ quitClosed = FALSE
    /\ hubRunning = TRUE
    /\ joined = {}
    /\ readerDone = [c \in Clients |-> FALSE]
    /\ connClosed = [c \in Clients |-> FALSE]
    /\ writerExit = [c \in Clients |-> "running"]
    /\ nBroadcasts = 0
    /\ lastEvent = NoEvent
    /\ fullSeen = {}

ClientCount == Cardinality(clients)

CountForDocument(members, documentID) ==
    Cardinality({c \in members : DocumentIDOf(c) = documentID})

ClientCountForDocumentAnyDocument(documentID) == Cardinality(clients)

ClientCountForDocument(documentID) == CountForDocument(clients, documentID)

\* the table after GetOrCreateDocument(documentID)
GetOrCreateDocument(documentID) ==
    IF documentID \in DOMAIN documents THEN documents
    ELSE [d \in DOMAIN documents \cup {documentID} |->
              IF d = documentID THEN NewDocument ELSE documents[d]]

SendOutcomeWithoutDefault(queue) ==
    IF Len(queue) < SendCap THEN "sent" ELSE "blocked"

\* select { case client.send <- message: default: } on one send channel:
\* the message is sent when the buffer has room, else the default case runs;
\* a send without a default case would wait ("blocked")
SendOutcome(queue) ==
    IF Len(queue) < SendCap THEN "sent" ELSE "default"

\* the handler gets through all its sends to targets
Completes(queues, targets) ==
    \A c \in targets : SendOutcome(queues[c]) # "blocked"

EnqueueAtFront(queues, targets, entry) ==
    [c \in Clients |->
        IF c \in targets /\ SendOutcome(queues[c]) = "sent"
            THEN <<entry>> \o queues[c]
        ELSE queues[c]]

EnqueueBlocking(queues, targets, entry) ==
    [c \in Clients |->
        IF c \in targets THEN Append(queues[c], entry) ELSE queues[c]]

\* select { case client.send <- message: ... default: ... } for each target:
\* the message is enqueued unless the buffer is full
Enqueue(queues, targets, entry) ==
    [c \in Clients |->
        IF c \in targets /\ SendOutcome(queues[c]) = "sent"
            THEN Append(queues[c], entry)
        ELSE queues[c]]

ScheduleUnregisterDropped(pending, full) == pending

\* go h.Unregister(client) for each full buffer: one more goroutine waiting
\* to send the client on h.unregister
ScheduleUnregister(pending, full) ==
    [c \in Clients |-> pending[c] + IF c \in full THEN 1 ELSE 0]

\* the targets whose buffer is full (the default case of the select)
FullAmong(queues, targets) ==
    {c \in targets : SendOutcome(queues[c]) = "default"}

broadcastToAllNilExcludesAll(exclude) ==
    {c \in clients : exclude # NoClient /\ c # exclude}

\* the clients broadcastToAll sends to
broadcastToAll(exclude) ==
    {c \in clients : ~(exclude # NoClient /\ c = exclude)}

broadcastToDocumentWithEcho(documentID, exclude) ==
    {c \in clients : DocumentIDOf(c) = documentID}

broadcastToDocumentUnscoped(documentID, exclude) ==
    {c \in clients : ~(exclude # NoClient /\ c = exclude)}

\* the clients broadcastToDocument sends to
broadcastToDocument(documentID, exclude) ==
    {c \in clients : DocumentIDOf(c) = documentID /\ ~(exclude # NoClient /\ c = exclude)}

broadcastUserCountTotal(members, queues) ==
    [c \in Clients |->
        IF c \in members /\ SendOutcome(queues[c]) = "sent"
            THEN Append(queues[c],
                    Entry(ToBytes(NewUserCountMessage(Cardinality(members))),
                          DocumentIDOf(c)))
        ELSE queues[c]]

\* the queues after broadcastUserCount over the client set members: one
\* user_count message per document to each of its clients, a full buffer
\* being skipped
broadcastUserCount(members, queues) ==
    [c \in Clients |->
        IF c \in members /\ SendOutcome(queues[c]) = "sent"
            THEN Append(queues[c],
                    Entry(ToBytes(NewUserCountMessage(
                              CountForDocument(members, DocumentIDOf(c)))),
                          DocumentIDOf(c)))
        ELSE queues[c]]

\* what the broadcast case of Run decides for (message, sender): the path
\* taken, the document table afterwards, and the fan-out (none when fan is
\* FALSE): its targets, its bytes and the document it is routed for
Routing(p, docs, fan, targets, data, d) ==
    [path |-> p, documents |-> docs, fan |-> fan, targets |-> targets,
     data |-> data, routedFor |-> d]

Route(message, sender) ==
    LET dec == MessageFromBytes(message)
        msg == dec.msg
        documentID == msg.document_id
        docs == GetOrCreateDocument(documentID)
        doc == docs[documentID]
    IN  IF ~dec.ok \/ IsLegacyContent(message)
            THEN Routing("legacy", documents, TRUE, broadcastToAll(NoClient),
                         message, AllDocuments)
        ELSE IF documentID = ""
            THEN Routing("no_id", documents, TRUE, broadcastToAll(NoClient),
                         message, AllDocuments)
        ELSE IF msg.type = MsgTypeOperation
            THEN IF msg.operation # NilOp
                 THEN LET r == ApplyOperation(doc, msg.operation) IN
                      IF ~r.ok
                          THEN Routing("op_failed", [docs EXCEPT ![documentID] = r.doc],
                                       FALSE, {}, message, documentID)
                      ELSE Routing("op_applied",
                                   [docs EXCEPT ![documentID] = r.doc], TRUE,
                                   broadcastToDocument(documentID, sender),
                                   ToBytes([msg EXCEPT !.operation.version = r.version]),
                                   documentID)
                 ELSE Routing("op_nil", docs, FALSE, {}, message, documentID)
        ELSE IF msg.type = MsgTypeContent
            THEN IF msg.content # <<>>
                 THEN Routing("content",
                              [docs EXCEPT ![documentID] = SetContent(doc, msg.content)],
                              TRUE, broadcastToDocument(documentID, sender),
                              ToBytes(msg), documentID)
                 ELSE Routing("content_empty", docs, FALSE, {}, message, documentID)
        ELSE Routing("other", docs, TRUE, broadcastToDocument(documentID, sender),
                     message, documentID)

\* ---- case client := <-h.register
HandleRegister(client) ==
    /\ hubRunning
    /\ client \notin joined
    /\ Completes(send, clients \cup {client})
    /\ joined' = joined \cup {client}
    /\ clients' = clients \cup {client}
    /\ send' = broadcastUserCount(clients \cup {client}, send)
    /\ lastEvent' = Event("register", client, "none")
    /\ UNCHANGED <<documents, sendClosed, unregPending, quitClosed, hubRunning,
                   readerDone, nBroadcasts, fullSeen, connClosed, writerExit>>

\* closes the channel without deleting the client
HandleUnregisterWithoutDelete(client) ==
    /\ hubRunning
    /\ unregPending[client] > 0
    /\ Completes(send, clients)
    /\ unregPending' = [unregPending EXCEPT ![client] = @ - 1]
    /\ clients' = clients
    /\ sendClosed' = [sendClosed EXCEPT ![client] = @ \/ client \in clients]
    /\ send' = broadcastUserCount(clients, send)
    /\ lastEvent' = Event("unregister", client,
                          IF client \in clients THEN "removed" ELSE "absent")
    /\ UNCHANGED <<documents, quitClosed, hubRunning, joined, readerDone,
                   nBroadcasts, fullSeen, connClosed, writerExit>>

\* ---- case client := <-h.unregister: one of the goroutines blocked in
\* h.Unregister(client) gets through
HandleUnregister(client) ==
    /\ hubRunning
    /\ unregPending[client] > 0
    /\ Completes(send, clients \ {client})
    /\ unregPending' = [unregPending EXCEPT ![client] = @ - 1]
    /\ clients' = clients \ {client}
    /\ sendClosed' = [sendClosed EXCEPT ![client] = @ \/ client \in clients]
    /\ send' = broadcastUserCount(clients \ {client}, send)
    /\ lastEvent' = Event("unregister", client,
                          IF client \in clients THEN "removed" ELSE "absent")
    /\ UNCHANGED <<documents, quitClosed, hubRunning, joined, readerDone,
                   nBroadcasts, fullSeen, connClosed, writerExit>>

\* deletes a client whose buffer is full and closes its channel on the spot
HandleBroadcastDeletesFull(message, sender) ==
    /\ hubRunning
    /\ sender = NoClient \/ (sender \in joined /\ ~readerDone[sender])
    /\ nBroadcasts' = nBroadcasts + 1
    /\ LET r == Route(message, sender)
           full == IF r.fan THEN FullAmong(send, r.targets) ELSE {}
       IN  /\ r.fan => Completes(send, r.targets)
           /\ documents' = r.documents
           /\ send' = IF r.fan
                          THEN Enqueue(send, r.targets, Entry(r.data, r.routedFor))
                      ELSE send
           /\ clients' = clients \ full
           /\ sendClosed' = [c \in Clients |-> sendClosed[c] \/ c \in full]
           /\ fullSeen' = fullSeen \cup full
           /\ lastEvent' = Event("broadcast", sender, r.path)
    /\ UNCHANGED <<unregPending, quitClosed, hubRunning, joined, readerDone,
                   connClosed, writerExit>>

\* ---- case bm := <-h.broadcast
HandleBroadcast(message, sender) ==
    /\ hubRunning
    /\ sender = NoClient \/ (sender \in joined /\ ~readerDone[sender])
    /\ nBroadcasts' = nBroadcasts + 1
    /\ LET r == Route(message, sender)
           full == IF r.fan THEN FullAmong(send, r.targets) ELSE {}
       IN  /\ r.fan => Completes(send, r.targets)
           /\ documents' = r.documents
           /\ send' = IF r.fan
                          THEN Enqueue(send, r.targets, Entry(r.data, r.routedFor))
                      ELSE send
           /\ unregPending' = ScheduleUnregister(unregPending, full)
           /\ fullSeen' = fullSeen \cup full
           /\ lastEvent' = Event("broadcast", sender, r.path)
    /\ UNCHANGED <<clients, sendClosed, quitClosed, hubRunning, joined, readerDone,
                   connClosed, writerExit>>

\* ---- Shutdown: close(h.quit)
Shutdown ==
    /\ ~quitClosed
    /\ quitClosed' = TRUE
    /\ UNCHANGED <<lastEvent, clients, documents, send, sendClosed, unregPending, hubRunning,
                   joined, readerDone, nBroadcasts, fullSeen, connClosed, writerExit>>

\* ---- case <-h.quit: closeAllClients, and Run returns
HandleQuit ==
    /\ hubRunning
    /\ quitClosed
    /\ sendClosed' = [c \in Clients |-> sendClosed[c] \/ c \in clients]
    /\ connClosed' = [c \in Clients |-> connClosed[c] \/ c \in clients]
    /\ clients' = {}
    /\ hubRunning' = FALSE
    /\ lastEvent' = Event("quit", NoClient, "none")
    /\ UNCHANGED <<documents, send, unregPending, quitClosed, joined, readerDone,
                   nBroadcasts, fullSeen, writerExit>>

\* ---- ReadPump: ReadMessage fails, the loop breaks and the deferred
\* h.Unregister(c) starts waiting for the hub
ReadPumpExit(client) ==
    /\ client \in joined
    /\ ~readerDone[client]
    /\ readerDone' = [readerDone EXCEPT ![client] = TRUE]
    /\ unregPending' = [unregPending EXCEPT ![client] = @ + 1]
    /\ UNCHANGED <<lastEvent, clients, documents, send, sendClosed, quitClosed, hubRunning,
                   joined, nBroadcasts, fullSeen, connClosed, writerExit>>

\* ---- WritePump: one receive from c.send; the message is written to the
\* connection, and a write on a closed connection fails and ends the pump
WritePumpReceive(client) ==
    /\ writerExit[client] = "running"
    /\ send[client] # <<>>
    /\ send' = [send EXCEPT ![client] = Tail(@)]
    /\ writerExit' = [writerExit EXCEPT
                          ![client] = IF connClosed[client] THEN "write_error" ELSE @]
    /\ UNCHANGED <<lastEvent, clients, documents, sendClosed, unregPending, quitClosed,
                   hubRunning, joined, readerDone, nBroadcasts, fullSeen, connClosed>>

\* ---- WritePump: the receive from a closed and drained c.send gives !ok:
\* the pump writes a close frame and returns, its defer closes the connection
WritePumpClosed(client) ==
    /\ writerExit[client] = "running"
    /\ send[client] = <<>>
    /\ sendClosed[client]
    /\ writerExit' = [writerExit EXCEPT ![client] = "closed_queue"]
    /\ connClosed' = [connClosed EXCEPT ![client] = TRUE]
    /\ UNCHANGED <<lastEvent, clients, documents, send, sendClosed, unregPending,
                   quitClosed, hubRunning, joined, readerDone, nBroadcasts, fullSeen>>

\* ---- WritePump: the ticker fires and the ping cannot be written because
\* the connection is closed
WritePumpPingFails(client) ==
    /\ writerExit[client] = "running"
    /\ client \in joined
    /\ connClosed[client]
    /\ writerExit' = [writerExit EXCEPT ![client] = "write_error"]
    /\ UNCHANGED <<lastEvent, clients, documents, send, sendClosed, unregPending,
                   quitClosed, hubRunning, joined, readerDone, nBroadcasts, fullSeen,
                   connClosed>>

\* a WritePump holding nothing; the hub loop at its select
NoHeld == [has |-> FALSE, data |-> NoBytes, n |-> 0]
AtSelect == [pc |-> "select", cur |-> NoClient, visited |-> {}]

\* ---- WritePump in finer steps: message, ok := <-c.send with ok true, and
\* w, err := c.conn.NextWriter(...), which fails on a closed connection
WritePumpTake(client) ==
    /\ writerExit[client] = "running"
    /\ ~wHeld[client].has
    /\ send[client] # <<>>
    /\ send' = [send EXCEPT ![client] = Tail(@)]
    /\ IF connClosed[client]
           THEN /\ writerExit' = [writerExit EXCEPT ![client] = "write_error"]
                /\ UNCHANGED wHeld
       ELSE /\ wHeld' = [wHeld EXCEPT ![client] =
                              [has |-> TRUE, data |-> Head(send[client]).data, n |-> 0]]
            /\ UNCHANGED writerExit
    /\ UNCHANGED <<lastEvent, clients, documents, sendClosed, unregPending, quitClosed,
                   hubRunning, joined, readerDone, nBroadcasts, fullSeen, connClosed,
                   wFrames, closing, countSkipped, opDropped>>

\* ---- w.Write(message); n := len(c.send); n times a newline and
\* w.Write(<-c.send); w.Close(): the held message and the n queued ones
\* leave as one frame
WritePumpFlush(client) ==
    /\ writerExit[client] = "running"
    /\ wHeld[client].has
    /\ LET n == Len(send[client])
           frame == <<wHeld[client].data>>
                        \o [i \in 1..n |-> send[client][i].data]
       IN  /\ send' = [send EXCEPT ![client] = SubSeq(@, n + 1, Len(@))]
           /\ IF connClosed[client]
                  THEN /\ writerExit' = [writerExit EXCEPT ![client] = "write_error"]
                       /\ UNCHANGED wFrames
              ELSE /\ wFrames' = [wFrames EXCEPT ![client] = Append(@, frame)]
                   /\ UNCHANGED writerExit
    /\ wHeld' = [wHeld EXCEPT ![client] = NoHeld]
    /\ UNCHANGED <<lastEvent, clients, documents, sendClosed, unregPending, quitClosed,
                   hubRunning, joined, readerDone, nBroadcasts, fullSeen, connClosed,
                   closing, countSkipped, opDropped>>

\* ---- case <-h.quit in finer steps: closeAllClients takes h.mu ...
QuitEnter ==
    /\ hubRunning
    /\ quitClosed
    /\ closing = AtSelect
    /\ closing' = [AtSelect EXCEPT !.pc = "loop"]
    /\ UNCHANGED <<hubVars, wFrames, wHeld, countSkipped, opDropped>>

\* ... for client := range h.clients: close(client.send) ...
CloseSend(client) ==
    /\ closing.pc = "loop"
    /\ closing.cur = NoClient
    /\ client \in clients \ closing.visited
    /\ sendClosed' = [sendClosed EXCEPT ![client] = TRUE]
    /\ closing' = [closing EXCEPT !.cur = client]
    /\ UNCHANGED <<lastEvent, clients, documents, send, unregPending, quitClosed,
                   hubRunning, joined, readerDone, nBroadcasts, fullSeen, connClosed,
                   writerExit, wFrames, wHeld, countSkipped, opDropped>>

\* ... client.conn.Close(), and on to the next client ...
CloseConn ==
    /\ closing.pc = "loop"
    /\ closing.cur # NoClient
    /\ connClosed' = [connClosed EXCEPT ![closing.cur] = TRUE]
    /\ closing' = [closing EXCEPT !.cur = NoClient,
                                  !.visited = @ \cup {closing.cur}]
    /\ UNCHANGED <<lastEvent, clients, documents, send, sendClosed, unregPending,
                   quitClosed, hubRunning, joined, readerDone, nBroadcasts, fullSeen,
                   writerExit, wFrames, wHeld, countSkipped, opDropped>>

\* ... h.clients = make(map[*Client]bool), and Run returns
QuitReturn ==
    /\ closing.pc = "loop"
    /\ closing.cur = NoClient
    /\ closing.visited = clients
    /\ clients' = {}
    /\ hubRunning' = FALSE
    /\ lastEvent' = Event("quit", NoClient, "none")
    /\ closing' = [closing EXCEPT !.pc = "returned"]
    /\ UNCHANGED <<documents, send, sendClosed, unregPending, quitClosed, joined,
                   readerDone, nBroadcasts, fullSeen, connClosed, writerExit,
                   wFrames, wHeld, countSkipped, opDropped>>

\* no pump has written or holds anything, the hub loop is at its select
StepIdle ==
    /\ wFrames = [c \in Clients |-> <<>>]
    /\ wHeld = [c \in Clients |-> NoHeld]
    /\ closing = AtSelect
    /\ countSkipped = {}
    /\ opDropped = {}

-----------------------------------------------------------------------------
(* The editors behind the clients.  An editor applies its own operation to *)
(* the text it shows and hands the operation message to the hub; every     *)
(* operation message its client delivers is applied to the text as         *)
(* received.  Other messages (user_count, content) leave the text alone    *)
(* here.                                                                   *)

Participants == {"c1", "c2"}

SyncIdle ==
    /\ pText = [p \in Participants |-> <<>>]
    /\ pOut = [p \in Participants |-> [phase |-> "start", message |-> NoBytes]]
    /\ pApplied = [p \in Participants |-> 0]

\* the editor applies op to its own text and hands it to h.Broadcast
LocalEdit(p, op) ==
    /\ p \in clients
    /\ pOut[p].phase = "start"
    /\ pApplied[p] = 0
    /\ Apply(pText[p], op).ok
    /\ pText' = [pText EXCEPT ![p] = Apply(@, op).doc]
    /\ pOut' = [pOut EXCEPT ![p] =
                   [phase |-> "sent",
                    message |-> ToBytes([NewOperationMessage(op) EXCEPT
                                            !.document_id = DocumentIDOf(p)])]]
    /\ UNCHANGED <<pApplied, hubVars>>

\* the hub loop takes the editor's message from h.broadcast
HubReceive(p) ==
    /\ pOut[p].phase = "sent"
    /\ HandleBroadcast(pOut[p].message, p)
    /\ pOut' = [pOut EXCEPT ![p].phase = "handled"]
    /\ UNCHANGED <<pText, pApplied>>

\* the client's WritePump passes the next queued message to the editor,
\* which applies a relayed operation as received
Deliver(p) ==
    /\ WritePumpReceive(p)
    /\ LET dec == MessageFromBytes(send[p][1].data)
           relayed == /\ dec.ok
                      /\ dec.msg.type = MsgTypeOperation
                      /\ dec.msg.operation # NilOp
       IN  IF relayed
               THEN LET r == Apply(pText[p], dec.msg.operation) IN
                    /\ pText' = [pText EXCEPT ![p] = IF r.ok THEN r.doc ELSE @]
                    /\ pApplied' = [pApplied EXCEPT ![p] = @ + 1]
           ELSE UNCHANGED <<pText, pApplied>>
    /\ UNCHANGED pOut

-----------------------------------------------------------------------------
(* Specification SpecOT: the operations package as a pure-function harness *)

Docs == StringsUpTo(MaxDocLen)
Texts == StringsUpTo(MaxTextLen)

\* the operations a caller can construct within the bounds, and the
\* versions the two of them are authored against (equal, or either one ahead)
InsDelOps ==
    {Operation(t, p, txt, 0) :
        t \in {OpInsert, OpDelete}, p \in 0..MaxDocLen, txt \in Texts \ {<<>>}}

VersionPairs == {<<0, 0>>, <<0, MaxVersion>>, <<MaxVersion, 0>>}

\* a caller that treats an empty-text Delete from Transform as a no-op
ApplyOrSkip(doc, op) ==
    IF op.type = OpDelete /\ op.text = <<>> THEN ApplyOk(doc) ELSE Apply(doc, op)

\* apply first, then the transformed second; an error of the first is kept
ApplyThen(doc, first, second) ==
    LET r == Apply(doc, first) IN
    IF ~r.ok THEN ApplyErr ELSE ApplyOrSkip(r.doc, second)

NoOut == [tr |-> TransformErr, left |-> ApplyErr, right |-> ApplyErr,
          applied |-> ApplyErr, undone |-> ApplyErr,
          swappedLeft |-> ApplyErr, swappedRight |-> ApplyErr]
NoMem == [p \in Refs |-> NilOp]

\* inputs written out in full: "ac" with insert(1,"X") and insert(1,"Y");
\* "abcd" with insert(2,"Z") and delete(1,"bc"); "abcdef" with
\* delete(1,"bcd") and delete(2,"cde")
OTScenarios ==
    { [doc |-> <<"a", "c">>, a |-> NewInsertOp(1, <<"X">>, 0),
       b |-> NewInsertOp(1, <<"Y">>, 0)],
      [doc |-> <<"a", "b", "c", "d">>, a |-> NewInsertOp(2, <<"Z">>, 0),
       b |-> NewDeleteOp(1, <<"b", "c">>, 0)],
      [doc |-> <<"a", "b", "c", "d", "e", "f">>,
       a |-> NewDeleteOp(1, <<"b", "c", "d">>, 0),
       b |-> NewDeleteOp(2, <<"c", "d", "e">>, 0)] }

InitOT ==
    /\ \/ /\ otDoc \in Docs
          /\ \E a \in InsDelOps, b \in InsDelOps, vp \in VersionPairs :
                /\ otA = [a EXCEPT !.version = vp[1]]
                /\ otB = [b EXCEPT !.version = vp[2]]
       \/ \E i \in OTScenarios : otDoc = i.doc /\ otA = i.a /\ otB = i.b
    /\ otPhase = "input"
    /\ otOut = NoOut
    /\ otMem = NoMem
    /\ otRet = <<>>
    /\ DocIdle
    /\ HubIdle
    /\ SyncIdle
    /\ StepIdle

\* Transform(a, b), then a followed by b' and b followed by a' on the
\* document; for two Inserts also the same with the outputs of Transform(b, a)
RunTransform ==
    /\ otPhase = "input"
    /\ otPhase' = "done"
    /\ LET tr == Transform(otA, otB)
           sw == IF otA.type = OpInsert /\ otB.type = OpInsert
                     THEN Transform(otB, otA) ELSE TransformErr
       IN
       otOut' = [NoOut EXCEPT
                 !.tr = tr,
                 !.left = IF tr.ok THEN ApplyThen(otDoc, otA, tr.b) ELSE ApplyErr,
                 !.right = IF tr.ok THEN ApplyThen(otDoc, otB, tr.a) ELSE ApplyErr,
                 !.swappedLeft =
                     IF sw.ok THEN ApplyThen(otDoc, otB, sw.b) ELSE ApplyErr,
                 !.swappedRight =
                     IF sw.ok THEN ApplyThen(otDoc, otA, sw.a) ELSE ApplyErr]
    /\ UNCHANGED <<otDoc, otA, otB, otMem, otRet>>
    /\ UNCHANGED nonOtVars

NextOT == RunTransform

SpecOT == InitOT /\ [][NextOT]_vars

-----------------------------------------------------------------------------
(* Specification SpecCalls: a caller holding two *Operation arguments, of  *)
(* any kind and validity, calls Transform on them repeatedly               *)

\* operations that Validate rejects, Retain operations, and the nil pointer
OddOps ==
    { NilOp,
      Operation(OpInsert, -1, <<"a">>, 0),
      Operation(OpDelete, 0, <<"a">>, -1),
      Operation(OpInsert, 0, <<>>, 0),
      Operation(OpDelete, 0, <<>>, 0),
      Operation("replace", 0, <<"a">>, 0),
      Operation(OpRetain, 0, <<>>, 0),
      Operation(OpRetain, 1, <<"a">>, 0),
      Operation(OpRetain, -1, <<>>, 0) }

CallOps == InsDelOps \cup OddOps

\* the caller's pointers: its first argument lives at 1, its second at 2
ArgRef(op, p) == IF op = NilOp THEN NilRef ELSE p

InitCalls ==
    /\ otDoc = <<>>
    /\ otA \in CallOps
    /\ otB \in CallOps
    /\ otPhase = "calls"
    /\ otOut = NoOut
    /\ otMem = [NoMem EXCEPT ![1] = otA, ![2] = otB]
    /\ otRet = <<>>
    /\ DocIdle
    /\ HubIdle
    /\ SyncIdle
    /\ StepIdle

\* a1, b1, err := Transform(a, b)
CallTransform ==
    /\ otPhase = "calls"
    /\ Len(otRet) < MaxTransformCalls
    /\ LET r == TransformRefs(otMem, ArgRef(otA, 1), ArgRef(otB, 2),
                              3 + 2 * Len(otRet)) IN
       /\ otMem' = r.mem
       /\ otRet' = Append(otRet, [ok |-> r.ok, a |-> r.a, b |-> r.b])
    /\ UNCHANGED <<otDoc, otA, otB, otPhase, otOut>>
    /\ UNCHANGED nonOtVars

NextCalls == CallTransform

SpecCalls == InitCalls /\ [][NextCalls]_vars

-----------------------------------------------------------------------------
(* Specification SpecApply: a caller applies one operation, of any kind    *)
(* and validity, to a document, and then undoes an Insert by applying the  *)
(* Insert followed by the Delete of the same text at the same position     *)

\* positions from below 0 to beyond the longest document, empty and
\* non-empty texts, a negative and a non-negative version
ApplyOps ==
    {Operation(t, p, txt, v) :
        t \in {OpInsert, OpDelete}, p \in (0 - 1)..(MaxDocLen + 1),
        txt \in Texts, v \in {0 - 1, 0}}
    \cup {NilOp, Operation("replace", 0, <<"a">>, 0),
          Operation(OpRetain, 0, <<>>, 0), Operation(OpRetain, 1, <<"a">>, 0)}

InitApply ==
    /\ otDoc \in Docs
    /\ otA \in ApplyOps
    /\ otB = NilOp
    /\ otPhase = "input"
    /\ otOut = NoOut
    /\ otMem = NoMem
    /\ otRet = <<>>
    /\ DocIdle
    /\ HubIdle
    /\ SyncIdle
    /\ StepIdle

\* result, err := Apply(doc, op)
RunApply ==
    /\ otPhase = "input"
    /\ otPhase' = "applied"
    /\ otOut' = [otOut EXCEPT !.applied = Apply(otDoc, otA)]
    /\ UNCHANGED <<otDoc, otA, otB, otMem, otRet>>
    /\ UNCHANGED nonOtVars

\* result, err := ApplyAll(doc, [insert, NewDeleteOp(position, text, version)])
RunApplyAll ==
    /\ otPhase = "applied"
    /\ otA.type = OpInsert
    /\ otPhase' = "undone"
    /\ otB' = NewDeleteOp(otA.position, otA.text, otA.version)
    /\ otOut' = [otOut EXCEPT !.undone = ApplyAll(otDoc, <<otA, otB'>>)]
    /\ UNCHANGED <<otDoc, otA, otMem, otRet>>
    /\ UNCHANGED nonOtVars

NextApply == RunApply \/ RunApplyAll

SpecApply == InitApply /\ [][NextApply]_vars

-----------------------------------------------------------------------------
(* Specification SpecDoc: goroutines calling one new Document concurrently *)

OTIdle ==
    /\ otDoc = <<>>
    /\ otA = NilOp
    /\ otB = NilOp
    /\ otPhase = "idle"
    /\ otOut = NoOut
    /\ otMem = NoMem
    /\ otRet = <<>>

DocContents == StringsOfLen(1)

DocOps ==
    { NewInsertOp(0, <<"a">>, 0), NewInsertOp(1, <<"b">>, 0),
      NewDeleteOp(0, <<"a">>, 0), NewInsertOp(0, <<>>, 0) }

InitDoc == OTIdle /\ DocIdle /\ HubIdle /\ SyncIdle /\ StepIdle

NextDoc ==
    \E t \in Threads :
        \/ \E content \in DocContents : SetContentLock(t, content)
        \/ SetContentStore(t)
        \/ SetContentLoadVersion(t)
        \/ SetContentStoreVersion(t)
        \/ SetContentStamp(t)
        \/ SetContentUnlock(t)
        \/ \E op \in DocOps : ApplyOperationLock(t, op)
        \/ ApplyOperationApply(t)
        \/ ApplyOperationStore(t)
        \/ ApplyOperationLoadVersion(t)
        \/ ApplyOperationStoreVersion(t)
        \/ ApplyOperationStamp(t)
        \/ ApplyOperationReturn(t)
        \/ GetContentAndVersionRLock(t)
        \/ GetContentAndVersionLoadContent(t)
        \/ GetContentAndVersionLoadVersion(t)
        \/ GetContentAndVersionReturn(t)

SpecDoc == InitDoc /\ [][NextDoc]_vars

-----------------------------------------------------------------------------
(* Specification SpecHub: the hub loop with its clients *)

\* the environment of the hub: c1 edits document A and is a slow reader (its
\* WritePump never gets to receive), c2 reads document A and may leave, c3 is
\* bound to document B; external callers have no client (nil)
Senders == {"c1", NoClient}
Leavers == {"c2"}
Drainers == {"c2", "c3"}

\* what a sender hands to Broadcast: plain text, a message without
\* document_id, and operation, content and user_count messages for a document
BroadcastInputs ==
    { Bytes(FALSE, FALSE, NewContentMessage(<<"a">>)),
      Bytes(TRUE, FALSE, NewContentMessage(<<"a">>)),
      Bytes(TRUE, FALSE, Message(MsgTypeOperation, "A", <<>>, NewInsertOp(0, <<"a">>, 0), 0)),
      Bytes(TRUE, FALSE, Message(MsgTypeOperation, "A", <<>>, NewDeleteOp(0, <<"b">>, 0), 0)),
      Bytes(TRUE, FALSE, Message(MsgTypeOperation, "A", <<>>, NewInsertOp(0, <<>>, 0), 0)),
      Bytes(TRUE, FALSE, Message(MsgTypeOperation, "A", <<>>, NilOp, 0)),
      Bytes(TRUE, FALSE, Message(MsgTypeContent, "A", <<"b">>, NilOp, 0)),
      Bytes(TRUE, FALSE, Message(MsgTypeContent, "A", <<>>, NilOp, 0)),
      Bytes(TRUE, FALSE, Message(MsgTypeUserCount, "A", <<>>, NilOp, 1)),
      Bytes(TRUE, FALSE, Message(MsgTypeContent, "B", <<"b">>, NilOp, 0)) }

InitHub == OTIdle /\ DocIdle /\ HubIdle /\ SyncIdle /\ StepIdle

Register == \E c \in Clients : HandleRegister(c) /\ UNCHANGED nonHubVars
Unregister == \E c \in Clients : HandleUnregister(c) /\ UNCHANGED nonHubVars
Broadcast ==
    /\ nBroadcasts < MaxBroadcasts
    /\ \E message \in BroadcastInputs, sender \in Senders :
          HandleBroadcast(message, sender) /\ UNCHANGED nonHubVars
Quit == HandleQuit /\ UNCHANGED nonHubVars
CallShutdown == Shutdown /\ UNCHANGED nonHubVars
ReadPump == \E c \in Leavers : ReadPumpExit(c) /\ UNCHANGED nonHubVars
WritePump == \E c \in Drainers : WritePumpReceive(c) /\ UNCHANGED nonHubVars

NextHub ==
    \/ Register
    \/ Unregister
    \/ Broadcast
    \/ ReadPump
    \/ WritePump

SpecHub == InitHub /\ [][NextHub]_vars

-----------------------------------------------------------------------------
(* Specification SpecSync: two editors on document A, each making one edit *)
(* against the text of the new Document (version 0)                        *)

SyncOps ==
    { NewInsertOp(0, <<"a">>, 0), NewInsertOp(0, <<"b">>, 0),
      NewInsertOp(0, <<"a", "b">>, 0) }

InitSync == OTIdle /\ DocIdle /\ HubIdle /\ SyncIdle /\ StepIdle

Join == \E p \in Participants : HandleRegister(p) /\ UNCHANGED nonHubVars
Edit ==
    \E p \in Participants, op \in SyncOps :
        LocalEdit(p, op) /\ UNCHANGED nonSyncVars
Relay == \E p \in Participants : HubReceive(p) /\ UNCHANGED nonSyncVars
Receive == \E p \in Participants : Deliver(p) /\ UNCHANGED nonSyncVars

NextSync ==
    \/ Join
    \/ Edit
    \/ Relay
    \/ Receive

SpecSync == InitSync /\ [][NextSync]_vars

-----------------------------------------------------------------------------
(* Specification SpecS5: backpressure.  c1 and c2 are registered for       *)
(* document A, c1's WritePump never receives, c2's does; an external       *)
(* caller broadcasts one message more than a send channel holds.  The hub  *)
(* loop's select takes a goroutine waiting on h.unregister eventually, and *)
(* a WritePump with a message to receive eventually receives it.           *)

S5Broadcasts == SendCap + 1

S5Messages ==
    { Bytes(TRUE, FALSE, Message(MsgTypeContent, "A", <<"b">>, NilOp, 0)),
      Bytes(TRUE, FALSE, Message(MsgTypeUserCount, "A", <<>>, NilOp, 1)) }

InitS5 == OTIdle /\ DocIdle /\ HubIdle /\ SyncIdle /\ StepIdle

RegisterS5 == \E c \in Participants : HandleRegister(c) /\ UNCHANGED nonHubVars
BroadcastS5 ==
    /\ joined = Participants
    /\ nBroadcasts < S5Broadcasts
    /\ \E message \in S5Messages :
          HandleBroadcast(message, NoClient) /\ UNCHANGED nonHubVars
UnregisterS5(c) == HandleUnregister(c) /\ UNCHANGED nonHubVars
WritePumpS5 == WritePumpReceive("c2") /\ UNCHANGED nonHubVars

NextS5 ==
    \/ RegisterS5
    \/ BroadcastS5
    \/ \E c \in Clients : UnregisterS5(c)
    \/ WritePumpS5

SpecS5 ==
    /\ InitS5
    /\ [][NextS5]_vars
    /\ \A c \in Clients : WF_vars(UnregisterS5(c))
    /\ WF_vars(WritePumpS5)

-----------------------------------------------------------------------------
(* Specification SpecOrder: the order of edits on one document.  c1 and c2 *)
(* are on document A and both read; once both have joined, c2 and an       *)
(* external caller broadcast operation and content messages for A.         *)

OrderBroadcasts == MaxBroadcasts + 2

OrderMessages ==
    { Bytes(TRUE, FALSE, Message(MsgTypeOperation, "A", <<>>, NewInsertOp(0, <<"a">>, 0), 0)),
      Bytes(TRUE, FALSE, Message(MsgTypeOperation, "A", <<>>, NewInsertOp(0, <<"b">>, 0), 0)),
      Bytes(TRUE, FALSE, Message(MsgTypeContent, "A", <<"b">>, NilOp, 0)) }

OrderSenders == {"c2", NoClient}

InitOrder == OTIdle /\ DocIdle /\ HubIdle /\ SyncIdle /\ StepIdle

RegisterOrder == \E c \in Participants : HandleRegister(c) /\ UNCHANGED nonHubVars
UnregisterOrder == \E c \in Participants : HandleUnregister(c) /\ UNCHANGED nonHubVars
BroadcastOrder ==
    /\ joined = Participants
    /\ nBroadcasts < OrderBroadcasts
    /\ \E message \in OrderMessages, sender \in OrderSenders :
          HandleBroadcast(message, sender) /\ UNCHANGED nonHubVars
WritePumpOrder == \E c \in Participants : WritePumpReceive(c) /\ UNCHANGED nonHubVars

NextOrder ==
    \/ RegisterOrder
    \/ UnregisterOrder
    \/ BroadcastOrder
    \/ WritePumpOrder

SpecOrder == InitOrder /\ [][NextOrder]_vars

-----------------------------------------------------------------------------
(* Specification SpecPresence: clients come and go and nobody broadcasts.  *)
(* c1's WritePump never receives; c2's reader may end.  The hub loop's     *)
(* select takes a goroutine waiting on h.unregister eventually, and a      *)
(* WritePump with a message to receive eventually receives it.             *)

InitPresence == OTIdle /\ DocIdle /\ HubIdle /\ SyncIdle /\ StepIdle

\* the register case, with the clients whose buffer broadcastUserCount finds
\* full recorded
RegisterP ==
    \E c \in Clients :
        /\ HandleRegister(c)
        /\ countSkipped' = countSkipped \cup FullAmong(send, clients \cup {c})
        /\ UNCHANGED <<otVars, docVars, syncVars, wFrames, wHeld, closing, opDropped>>

UnregisterP(c) ==
    /\ HandleUnregister(c)
    /\ countSkipped' = countSkipped \cup FullAmong(send, clients \ {c})
    /\ UNCHANGED <<otVars, docVars, syncVars, wFrames, wHeld, closing, opDropped>>

ReadPumpP == \E c \in Leavers : ReadPumpExit(c) /\ UNCHANGED nonHubVars
WritePumpP(c) == c \in Drainers /\ WritePumpReceive(c) /\ UNCHANGED nonHubVars

NextPresence ==
    \/ RegisterP
    \/ ReadPumpP
    \/ \E c \in Clients : UnregisterP(c) \/ WritePumpP(c)

SpecPresence ==
    /\ InitPresence
    /\ [][NextPresence]_vars
    /\ \A c \in Clients : WF_vars(UnregisterP(c)) /\ WF_vars(WritePumpP(c))

-----------------------------------------------------------------------------
(* Specification SpecWriter: c1 and c2 are on document A; once both have   *)
(* joined an external caller broadcasts operation and content messages for *)
(* A, and each WritePump receives and writes in its own steps              *)

InitWriter == OTIdle /\ DocIdle /\ HubIdle /\ SyncIdle /\ StepIdle

RegisterW == \E c \in Participants : HandleRegister(c) /\ UNCHANGED nonHubVars
UnregisterW == \E c \in Participants : HandleUnregister(c) /\ UNCHANGED nonHubVars

\* the broadcast case, with the clients for which an operation message was
\* dropped at a full buffer recorded
BroadcastW ==
    /\ joined = Participants
    /\ nBroadcasts < OrderBroadcasts
    /\ \E message \in OrderMessages :
          /\ HandleBroadcast(message, NoClient)
          /\ LET r == Route(message, NoClient) IN
             opDropped' = opDropped \cup
                 (IF r.path = "op_applied" THEN FullAmong(send, r.targets) ELSE {})
    /\ UNCHANGED <<otVars, docVars, syncVars, wFrames, wHeld, closing, countSkipped>>

TakeW == \E c \in Participants : WritePumpTake(c) /\ UNCHANGED nonHubAndStepVars
FlushW == \E c \in Participants : WritePumpFlush(c) /\ UNCHANGED nonHubAndStepVars

NextWriter ==
    \/ RegisterW
    \/ UnregisterW
    \/ BroadcastW
    \/ TakeW
    \/ FlushW

SpecWriter == InitWriter /\ [][NextWriter]_vars

-----------------------------------------------------------------------------
(* Specification SpecQuit: clients register, their WritePumps receive, and *)
(* Shutdown may be called at any moment; the quit case runs                *)
(* closeAllClients one statement at a time                                 *)

InitQuit == OTIdle /\ DocIdle /\ HubIdle /\ SyncIdle /\ StepIdle

RegisterK ==
    /\ closing = AtSelect
    /\ \E c \in Clients : HandleRegister(c) /\ UNCHANGED nonHubVars
ShutdownK == Shutdown /\ UNCHANGED nonHubVars
QuitEnterK == QuitEnter /\ UNCHANGED nonHubAndStepVars
CloseSendK == \E c \in Clients : CloseSend(c) /\ UNCHANGED nonHubAndStepVars
CloseConnK == CloseConn /\ UNCHANGED nonHubAndStepVars
QuitReturnK == QuitReturn /\ UNCHANGED nonHubAndStepVars
WriterReceiveK == \E c \in Clients : WritePumpReceive(c) /\ UNCHANGED nonHubVars
WriterClosedK == \E c \in Clients : WritePumpClosed(c) /\ UNCHANGED nonHubVars

NextQuit ==
    \/ RegisterK
    \/ ShutdownK
    \/ QuitEnterK
    \/ CloseSendK
    \/ CloseConnK
    \/ QuitReturnK
    \/ WriterReceiveK
    \/ WriterClosedK

SpecQuit == InitQuit /\ [][NextQuit]_vars

-----------------------------------------------------------------------------
(* Specification SpecShutdown: clients register, an external caller        *)
(* broadcasts, queues may fill, and Shutdown may be called at any moment.  *)
(* A ReadPump ends when its connection is closed.  The hub loop's select   *)
(* takes a ready case eventually, and a pump that can step does.           *)

ShutdownMessages ==
    { Bytes(FALSE, FALSE, NewContentMessage(<<"a">>)),
      Bytes(TRUE, FALSE, Message(MsgTypeContent, "A", <<"b">>, NilOp, 0)) }

InitShutdown == OTIdle /\ DocIdle /\ HubIdle /\ SyncIdle /\ StepIdle

RegisterQ == \E c \in Clients : HandleRegister(c) /\ UNCHANGED nonHubVars
UnregisterQ(c) == HandleUnregister(c) /\ UNCHANGED nonHubVars
BroadcastQ ==
    /\ nBroadcasts < MaxBroadcasts
    /\ \E message \in ShutdownMessages :
          HandleBroadcast(message, NoClient) /\ UNCHANGED nonHubVars
ShutdownQ == Shutdown /\ UNCHANGED nonHubVars
QuitQ == HandleQuit /\ UNCHANGED nonHubVars
WriterReceiveQ(c) == WritePumpReceive(c) /\ UNCHANGED nonHubVars
WriterClosedQ(c) == WritePumpClosed(c) /\ UNCHANGED nonHubVars
WriterPingQ(c) == WritePumpPingFails(c) /\ UNCHANGED nonHubVars
ReaderClosedQ(c) == connClosed[c] /\ ReadPumpExit(c) /\ UNCHANGED nonHubVars

NextShutdown ==
    \/ RegisterQ
    \/ BroadcastQ
    \/ ShutdownQ
    \/ QuitQ
    \/ \E c \in Clients :
          \/ UnregisterQ(c)
          \/ WriterReceiveQ(c)
          \/ WriterClosedQ(c)
          \/ WriterPingQ(c)
          \/ ReaderClosedQ(c)

SpecShutdown ==
    /\ InitShutdown
    /\ [][NextShutdown]_vars
    /\ WF_vars(QuitQ)
    /\ \A c \in Clients :
          /\ WF_vars(UnregisterQ(c))
          /\ WF_vars(WriterReceiveQ(c))
          /\ WF_vars(WriterClosedQ(c))
          /\ WF_vars(ReaderClosedQ(c))

-----------------------------------------------------------------------------
(* Claims about Transform and Apply *)

BothApply == Apply(otDoc, otA).ok /\ Apply(otDoc, otB).ok

\* C1: for valid Insert/Delete operations a, b that each apply to D, with
\* (a', b') = Transform(a, b), a then b' and b then a' both succeed and give
\* the same text (an empty-text transformed Delete being skipped).
C1_TransformConvergence ==
    (otPhase = "done" /\ otA.version = otB.version /\ BothApply) =>
        /\ otOut.tr.ok
        /\ otOut.left.ok
        /\ otOut.right.ok
        /\ otOut.left.doc = otOut.right.doc

\* C20: two valid Inserts that apply to D converge under Transform; at equal
\* positions only b is shifted, by the length of a's text, and the common
\* result has a's text immediately followed by b's text at that position.
C20_InsertInsertTieBreak ==
    (otPhase = "done" /\ otA.type = OpInsert /\ otB.type = OpInsert /\ BothApply) =>
        /\ otOut.tr.ok
        /\ otOut.left.ok
        /\ otOut.right.ok
        /\ otOut.left.doc = otOut.right.doc
        /\ otA.position = otB.position =>
              /\ otOut.tr.b.position = otB.position + Len(otA.text)
              /\ otOut.tr.a.position = otA.position
              /\ otOut.left.doc =
                     Prefix(otDoc, otA.position) \o otA.text \o otB.text
                         \o Suffix(otDoc, otA.position)

\* "ac" with a = insert(1,"X") and b = insert(1,"Y") gave "aXYc" both ways
C20_Witness ==
    /\ otPhase = "done"
    /\ otDoc = <<"a", "c">>
    /\ otA = NewInsertOp(1, <<"X">>, 0)
    /\ otB = NewInsertOp(1, <<"Y">>, 0)
    /\ otOut.left.doc = <<"a", "X", "Y", "c">>
    /\ otOut.right.doc = <<"a", "X", "Y", "c">>

\* the end of a Delete's range, and the document without the range [p, q)
RangeEnd(op) == op.position + Len(op.text)
Without(doc, p, q) == Prefix(doc, p) \o Suffix(doc, q)

BothSucceed ==
    /\ otOut.tr.ok
    /\ otOut.left.ok
    /\ otOut.right.ok
    /\ otOut.left.doc = otOut.right.doc

\* the Insert lands inside the Delete's range: D.position < I.position <= end
InsertInsideDelete(I, D) ==
    /\ I.type = OpInsert
    /\ D.type = OpDelete
    /\ D.position < I.position
    /\ I.position <= RangeEnd(D)

\* C21: for an Insert I and a Delete D that both apply to the document, with
\* D.position < I.position <= D.position + len(D.text), Transform moves I to
\* D.position and leaves D's position and text alone, and both orders succeed
\* with the same text: D's range removed and I's text at D.position.
C21_InsertInsideDeleteConverges ==
    (otPhase = "done" /\ BothApply) =>
        /\ InsertInsideDelete(otA, otB) =>
              /\ BothSucceed
              /\ otOut.tr.a.position = otB.position
              /\ otOut.tr.b.position = otB.position
              /\ otOut.tr.b.text = otB.text
              /\ otOut.left.doc =
                     Prefix(otDoc, otB.position) \o otA.text
                         \o Suffix(otDoc, RangeEnd(otB))
        /\ InsertInsideDelete(otB, otA) =>
              /\ BothSucceed
              /\ otOut.tr.b.position = otA.position
              /\ otOut.tr.a.position = otA.position
              /\ otOut.tr.a.text = otA.text
              /\ otOut.left.doc =
                     Prefix(otDoc, otA.position) \o otB.text
                         \o Suffix(otDoc, RangeEnd(otA))

BothDeletes == otA.type = OpDelete /\ otB.type = OpDelete

Disjoint(a, b) == RangeEnd(a) <= b.position \/ RangeEnd(b) <= a.position

Identical(a, b) == a.position = b.position /\ RangeEnd(a) = RangeEnd(b)

\* C22: two Deletes that both apply to the document and whose ranges overlap
\* or contain one another without being identical converge under Transform:
\* both orders succeed (an empty-text result being skipped) and give the
\* document with the union of the two ranges removed.
C22_OverlappingDeletesConverge ==
    (/\ otPhase = "done" /\ BothApply /\ BothDeletes
     /\ ~Disjoint(otA, otB) /\ ~Identical(otA, otB)) =>
        /\ BothSucceed
        /\ otOut.left.doc =
               Without(otDoc, min(otA.position, otB.position),
                       IF RangeEnd(otA) < RangeEnd(otB) THEN RangeEnd(otB)
                       ELSE RangeEnd(otA))

\* C23: for two Deletes that both apply to the document, disjoint ranges make
\* Transform move only the right-hand one, left by the length of the other,
\* and both orders converge; identical ranges make both transformed texts
\* empty, and both orders give the document with that range removed once.
C23_DisjointAndIdenticalDeletes ==
    (otPhase = "done" /\ BothApply /\ BothDeletes) =>
        /\ RangeEnd(otA) <= otB.position =>
              /\ BothSucceed
              /\ otOut.tr.b.position = otB.position - Len(otA.text)
              /\ otOut.tr.a.position = otA.position
              /\ otOut.tr.a.text = otA.text /\ otOut.tr.b.text = otB.text
        /\ RangeEnd(otB) <= otA.position =>
              /\ BothSucceed
              /\ otOut.tr.a.position = otA.position - Len(otB.text)
              /\ otOut.tr.b.position = otB.position
              /\ otOut.tr.a.text = otA.text /\ otOut.tr.b.text = otB.text
        /\ Identical(otA, otB) =>
              /\ BothSucceed
              /\ otOut.tr.a.text = <<>> /\ otOut.tr.b.text = <<>>
              /\ otOut.left.doc = Without(otDoc, otA.position, RangeEnd(otA))

\* "aba" with a = delete(2,"a") and b = delete(0,"ab"): b is the left-hand
\* one, a moved from 2 to 0, and both orders gave ""
C23_Witness ==
    /\ otPhase = "done"
    /\ otDoc = <<"a", "b", "a">>
    /\ otA = NewDeleteOp(2, <<"a">>, 0)
    /\ otB = NewDeleteOp(0, <<"a", "b">>, 0)
    /\ otOut.tr.a.position = 0
    /\ otOut.left.ok /\ otOut.right.ok
    /\ otOut.left.doc = <<>> /\ otOut.right.doc = <<>>

\* C24: after a successful Transform(a, b) both returned operations carry
\* version max(a.version, b.version) + 1, also when the two versions differ.
C24_VersionIsMaxPlusOne ==
    (otPhase = "done" /\ otOut.tr.ok) =>
        LET next == (IF otA.version < otB.version THEN otB.version
                     ELSE otA.version) + 1
        IN  otOut.tr.a.version = next /\ otOut.tr.b.version = next

\* what the caller's arguments held when it built them
ArgsAsBuilt ==
    /\ otA # NilOp => otMem[1] = otA
    /\ otB # NilOp => otMem[2] = otB

\* C25: Transform never changes the kind, position, text or version of
\* either input operation, the operations it returns are objects distinct
\* from its inputs, and two calls with equal inputs return equal outputs.
C25_TransformIsPure ==
    /\ ArgsAsBuilt
    /\ \A i \in 1..Len(otRet) :
          otRet[i].ok =>
              /\ otRet[i].a \notin {NilRef, 1, 2}
              /\ otRet[i].b \notin {NilRef, 1, 2}
              /\ otRet[i].a # otRet[i].b
    /\ \A i, j \in 1..Len(otRet) :
          /\ otRet[i].ok = otRet[j].ok
          /\ Deref(otMem, otRet[i].a) = Deref(otMem, otRet[j].a)
          /\ Deref(otMem, otRet[i].b) = Deref(otMem, otRet[j].b)

\* Transform(insert(1,"a"), insert(0,"b")) was called twice: both calls
\* returned new objects holding insert(2,"a") and insert(0,"b")
C25_Witness ==
    /\ otA = NewInsertOp(1, <<"a">>, 0)
    /\ otB = NewInsertOp(0, <<"b">>, 0)
    /\ Len(otRet) = MaxTransformCalls
    /\ otRet[1].ok /\ otRet[2].ok
    /\ otRet[1].a # otRet[2].a
    /\ otMem[otRet[1].a].position = 2
    /\ otMem[otRet[2].a].position = 2
    /\ otMem[1].position = 1

\* the inputs the claim lists as failing: nil, a negative position or
\* version, an Insert or Delete without text, an unknown kind, a Retain
Rejected(op) ==
    \/ op = NilOp
    \/ op.position < 0
    \/ op.version < 0
    \/ op.type \in {OpInsert, OpDelete} /\ op.text = <<>>
    \/ op.type \notin {OpInsert, OpDelete, OpRetain}
    \/ op.type = OpRetain

\* C26: Transform returns an error and no operations exactly when an input
\* is nil, fails Validate or is a Retain; for every pair of valid
\* Insert/Delete operations it returns two operations and no error.
C26_TransformErrors ==
    \A i \in 1..Len(otRet) :
        /\ otRet[i].ok <=> ~(Rejected(otA) \/ Rejected(otB))
        /\ ~otRet[i].ok => otRet[i].a = NilRef /\ otRet[i].b = NilRef
        /\ otRet[i].ok =>
              /\ otRet[i].a # NilRef /\ otRet[i].b # NilRef
              /\ otMem[otRet[i].a].type = otA.type
              /\ otMem[otRet[i].b].type = otB.type

\* Transform(delete(0,"a"), retain) returned an error and no operations
C26_Witness ==
    /\ otA = NewDeleteOp(0, <<"a">>, 0)
    /\ otB = Operation(OpRetain, 1, <<"a">>, 0)
    /\ Len(otRet) >= 1
    /\ ~otRet[1].ok
    /\ otRet[1].a = NilRef

Applied == otPhase \in {"applied", "undone"}

\* C27: Apply of a valid Insert with 0 <= position <= len(doc) returns
\* doc[:position] + text + doc[position:] and no error, also at the end of
\* the document and on the empty document; beyond len(doc) it returns an
\* error.
C27_ApplyInsert ==
    (/\ Applied /\ otA.type = OpInsert
     /\ otA.position >= 0 /\ otA.version >= 0 /\ otA.text # <<>>) =>
        IF otA.position <= Len(otDoc)
        THEN /\ otOut.applied.ok
             /\ otOut.applied.doc =
                    SubSeq(otDoc, 1, otA.position) \o otA.text
                        \o SubSeq(otDoc, otA.position + 1, Len(otDoc))
        ELSE ~otOut.applied.ok

\* insert(2,"b") on "aa" appended: "aab"
C27_Witness ==
    /\ Applied
    /\ otDoc = <<"a", "a">>
    /\ otA = NewInsertOp(2, <<"b">>, 0)
    /\ otOut.applied = ApplyOk(<<"a", "a", "b">>)

\* the Delete names a range of the document that holds exactly its text
DeleteMatches(doc, op) ==
    /\ op.text # <<>>
    /\ 0 <= op.position
    /\ op.position < Len(doc)
    /\ op.position + Len(op.text) <= Len(doc)
    /\ SubSeq(doc, op.position + 1, op.position + Len(op.text)) = op.text

\* C28 as stated: Apply of a Delete succeeds exactly when its text is
\* non-empty, 0 <= position < len(doc), position + len(text) <= len(doc) and
\* doc[position : position+len(text)] equals the text, and then returns doc
\* with that range removed; in every other case it returns an error.
C28_ApplyDeleteAsStated ==
    (Applied /\ otA.type = OpDelete) =>
        /\ otOut.applied.ok <=> DeleteMatches(otDoc, otA)
        /\ otOut.applied.ok =>
              otOut.applied.doc =
                  SubSeq(otDoc, 1, otA.position)
                      \o SubSeq(otDoc, otA.position + Len(otA.text) + 1, Len(otDoc))

\* C28, amended: Apply of a Delete succeeds exactly when its version is not
\* negative, its text is non-empty, 0 <= position < len(doc), position +
\* len(text) <= len(doc) and doc[position : position+len(text)] equals the
\* text, and then returns doc with that range removed; in every other case
\* it returns an error.
C28_ApplyDelete ==
    (Applied /\ otA.type = OpDelete) =>
        /\ otOut.applied.ok <=> (otA.version >= 0 /\ DeleteMatches(otDoc, otA))
        /\ otOut.applied.ok =>
              otOut.applied.doc =
                  SubSeq(otDoc, 1, otA.position)
                      \o SubSeq(otDoc, otA.position + Len(otA.text) + 1, Len(otDoc))

\* delete(1,"ba") on "aba" left "a"
C28_Witness ==
    /\ Applied
    /\ otDoc = <<"a", "b", "a">>
    /\ otA = NewDeleteOp(1, <<"b", "a">>, 0)
    /\ otOut.applied = ApplyOk(<<"a">>)

\* C29: for every document D and every valid Insert I that applies to D at
\* position p, applying I and then Delete(p, I.text) succeeds and returns
\* exactly D.
C29_DeleteUndoesInsert ==
    (otPhase = "undone" /\ otOut.applied.ok) =>
        /\ otOut.undone.ok
        /\ otOut.undone.doc = otDoc

\* insert(1,"ab") into "ab" and delete(1,"ab") after it gave "ab" again
C29_Witness ==
    /\ otPhase = "undone"
    /\ otDoc = <<"a", "b">>
    /\ otA = NewInsertOp(1, <<"a", "b">>, 0)
    /\ otOut.applied = ApplyOk(<<"a", "a", "b", "b">>)
    /\ otB = NewDeleteOp(1, <<"a", "b">>, 0)
    /\ otOut.undone = ApplyOk(<<"a", "b">>)

\* C36: for two valid Inserts a and b at the same position that apply to
\* the document, the converged document obtained with the outputs of
\* Transform(a, b) equals the one obtained with the outputs of
\* Transform(b, a).
C36_TieBreakSymmetric ==
    (/\ otPhase = "done" /\ BothApply
     /\ otA.type = OpInsert /\ otB.type = OpInsert
     /\ otA.position = otB.position) =>
        /\ otOut.left.ok /\ otOut.right.ok
        /\ otOut.swappedLeft.ok /\ otOut.swappedRight.ok
        /\ otOut.swappedLeft.doc = otOut.left.doc
        /\ otOut.swappedRight.doc = otOut.right.doc

-----------------------------------------------------------------------------
(* Claims about the Document *)

\* the content committed by the v-th successful mutation ("" when v = 0)
CommittedAt(v) ==
    IF v = 0 THEN <<>>
    ELSE IF v \in 1..Len(history) /\ history[v].v = v THEN history[v].c
    ELSE <<"?">>

\* C6: starting from a new Document, whenever no mutation is in progress the
\* version equals the number of SetContent and ApplyOperation calls that have
\* completed successfully; failed ApplyOperation calls do not count.
C6_VersionCountsMutations ==
    muWriter = NoThread => dVersion = nSucceeded

C6_Witness ==
    /\ muWriter = NoThread
    /\ nSucceeded = 3
    /\ nFailed >= 1
    /\ dVersion = 3

\* C7: every (content, version) pair returned by GetContentAndVersion is the
\* content committed by that version's mutation.
C7_ConsistentSnapshot ==
    \A t \in Threads :
        (tRet[t].set /\ tRet[t].ok /\ tPc[t] = "idle" /\ tArg[t] = NoArg) =>
            tRet[t].c = CommittedAt(tRet[t].v)

\* a reader returned the snapshot of version 1 after a writer had entered
\* for the next mutation
C7_Witness ==
    \E t \in Threads :
        /\ tRet[t].set /\ tPc[t] = "idle" /\ tArg[t] = NoArg
        /\ tRet[t].v = 1
        /\ dVersion = 2
        /\ tRet[t].c # dContent

\* the Document's three fields, as a record like the one taken at entry
Fields(c, v, m) == [c |-> c, v |-> v, m |-> m]

\* C30: a failing ApplyOperation leaves content, version and lastModified
\* as the call found them and returns that version with the error; a
\* succeeding one returns the Document's new content and the version it
\* found plus one, and whenever no mutation is in progress content and
\* version are those of one committed mutation.
C30_ApplyOperationAllOrNothing ==
    /\ [](muWriter = NoThread => dContent = CommittedAt(dVersion))
    /\ [][\A t \in Threads :
            /\ (tPc[t] = "ao_apply" /\ tPc'[t] = "idle") =>
                  /\ Fields(dContent', dVersion', dLastModified') = tReg[t].entry
                  /\ tRet'[t] = [set |-> TRUE, c |-> <<>>, v |-> tReg[t].entry.v,
                                 ok |-> FALSE]
            /\ (tPc[t] = "ao_return" /\ tPc'[t] = "idle") =>
                  /\ tRet'[t].ok
                  /\ tRet'[t].c = dContent'
                  /\ tRet'[t].c = Apply(tReg[t].entry.c, tArg[t].op).doc
                  /\ tRet'[t].v = dVersion'
                  /\ tRet'[t].v = tReg[t].entry.v + 1]_vars

\* one ApplyOperation has returned an error with version 1 while another
\* returned version 1 with the content it committed
C30_Witness ==
    \E t, u \in Threads :
        /\ tPc[t] = "idle" /\ tRet[t].set /\ ~tRet[t].ok /\ tRet[t].v = 1
        /\ tPc[u] = "idle" /\ tRet[u].set /\ tRet[u].ok /\ tArg[u].op # NilOp
        /\ tRet[u].v = 1 /\ tRet[u].c = dContent
        /\ dVersion = 1
        /\ muWriter = NoThread

-----------------------------------------------------------------------------
(* Claims about the Hub *)

\* the Document a broadcast for documentID works on: the one in the table,
\* or the new one GetOrCreateDocument makes
DocumentFor(documentID) ==
    IF documentID \in DOMAIN documents THEN documents[documentID] ELSE NewDocument

IsOperationMessage(m) ==
    /\ m.json
    /\ m.msg.document_id # ""
    /\ m.msg.type = MsgTypeOperation
    /\ m.msg.operation # NilOp

OperationApplies(m) ==
    Apply(DocumentFor(m.msg.document_id).content, m.msg.operation).ok

\* this step is the hub loop handling one broadcast
BroadcastStep == nBroadcasts' = nBroadcasts + 1

\* C3: whatever path a broadcast with a sender takes, the sender's own queue
\* receives no copy.
C3_SenderExclusion ==
    [][\A s \in Clients :
          (BroadcastStep /\ lastEvent'.client = s) => send'[s] = send[s]]_vars

\* C4: an operation message for document X from sender S whose operation
\* applies sets X's content to Apply(content, op), raises its version by one,
\* enqueues the message stamped with the new version once to every registered
\* client of X other than S whose queue is not full, and nothing to S.
C4_OperationApplied ==
    [][\A m \in BroadcastInputs, s \in Senders :
          (BroadcastStep /\ HandleBroadcast(m, s)
              /\ IsOperationMessage(m) /\ OperationApplies(m)) =>
            LET X == m.msg.document_id
                old == DocumentFor(X)
                stamped == [m.msg EXCEPT !.operation.version = old.version + 1]
            IN  /\ documents'[X].content = Apply(old.content, m.msg.operation).doc
                /\ documents'[X].version = old.version + 1
                /\ \A c \in clients :
                      (DocumentIDOf(c) = X /\ c # s /\ Len(send[c]) < SendCap) =>
                          /\ Len(send'[c]) = Len(send[c]) + 1
                          /\ SubSeq(send'[c], 1, Len(send[c])) = send[c]
                          /\ send'[c][Len(send'[c])].data.msg = stamped
                /\ s # NoClient => send'[s] = send[s]]_vars

\* c1's operation was applied: c2 holds it with the new version, c1 holds no
\* copy although its queue had room
C4_Witness ==
    /\ lastEvent = Event("broadcast", "c1", "op_applied")
    /\ {"c1", "c2"} \subseteq clients
    /\ documents["A"].version = 1
    /\ send["c2"] # <<>>
    /\ send["c2"][Len(send["c2"])].data.msg.operation.version = 1
    /\ Len(send["c1"]) < SendCap

\* C5: a message routed for document X (fanned out by broadcastToDocument for
\* X, or a user_count computed for X) is never in the queue of a client bound
\* to another document.
C5_PerDocumentIsolation ==
    \A c \in Clients : \A i \in 1..Len(send[c]) :
        LET e == send[c][i] IN
        /\ e.routedFor \in {AllDocuments, DocumentIDOf(c)}
        /\ (e.routedFor # AllDocuments /\ e.data.msg.document_id # "") =>
               e.data.msg.document_id = DocumentIDOf(c)

\* a message fanned out for document A reached c2 while c3, bound to B, was
\* registered with room in its queue
C5_Witness ==
    /\ lastEvent.kind = "broadcast"
    /\ lastEvent.path \in {"op_applied", "content", "other"}
    /\ {"c2", "c3"} \subseteq clients
    /\ Len(send["c3"]) < SendCap
    /\ \E i \in 1..Len(send["c2"]) :
          /\ send["c2"][i].routedFor = "A"
          /\ send["c2"][i].data.msg.document_id = "A"

\* C8: an operation message whose operation fails to apply enqueues nothing
\* to anybody and leaves the Document's content and version as they were.
C8_FailedOperationDropped ==
    [][\A m \in BroadcastInputs, s \in Senders :
          (BroadcastStep /\ HandleBroadcast(m, s)
              /\ IsOperationMessage(m) /\ ~OperationApplies(m)) =>
            /\ send' = send
            /\ unregPending' = unregPending
            /\ documents'[m.msg.document_id] = DocumentFor(m.msg.document_id)
            /\ \A d \in DOMAIN documents : documents'[d] = documents[d]]_vars

\* a failing operation from c1 was handled while c2 could have received it
C8_Witness ==
    /\ lastEvent = Event("broadcast", "c1", "op_failed")
    /\ {"c1", "c2"} \subseteq clients
    /\ Len(send["c2"]) < SendCap
    /\ "A" \in DOMAIN documents

C14_UnregisterAbsentIsNoOp ==
    [][\A c \in Clients :
          (HandleUnregister(c) /\ c \notin clients) =>
              /\ clients' = clients
              /\ send' = send
              /\ documents' = documents
              /\ sendClosed' = sendClosed]_vars

\* the user_count message for count n
IsUserCount(e, n) ==
    /\ e.data.json
    /\ e.data.msg.type = MsgTypeUserCount
    /\ e.data.msg.user_count = n

\* C15: after a Register or Unregister is handled, every registered client
\* whose queue had room has been enqueued one user_count message carrying
\* the number of clients now registered on its own document.
C15_UserCountPerDocument ==
    [][\A c \in Clients :
          (HandleRegister(c) \/ HandleUnregister(c)) =>
              \A x \in clients' :
                  Len(send[x]) < SendCap =>
                      /\ Len(send'[x]) = Len(send[x]) + 1
                      /\ SubSeq(send'[x], 1, Len(send[x])) = send[x]
                      /\ IsUserCount(send'[x][Len(send'[x])],
                             Cardinality({y \in clients' :
                                 DocumentIDOf(y) = DocumentIDOf(x)}))]_vars

\* c3 registered for B after c1 and c2 for A: c3 is told 1, not 3
C15_Witness ==
    /\ lastEvent = Event("register", "c3", "none")
    /\ clients = Clients
    /\ send["c3"] # <<>>
    /\ IsUserCount(send["c3"][Len(send["c3"])], 1)
    /\ send["c2"] # <<>>
    /\ IsUserCount(send["c2"][Len(send["c2"])], 2)

\* the clients whose Register was handled and that no Unregister has removed
Registered == {c \in joined : ~sendClosed[c]}

\* C16: whatever Register and Unregister events have been handled,
\* ClientCount is the number of clients registered and not unregistered, and
\* ClientCountForDocument(d) the number of those bound to d (0 for a
\* document nobody is bound to).
C16_ClientCounts ==
    /\ ClientCount = Cardinality(Registered)
    /\ \A d \in DocIDs \cup {"C"} :
          ClientCountForDocument(d) =
              Cardinality({c \in Registered : DocumentIDOf(c) = d})

\* c2 came and went, c1 and c3 stay: 2 clients, one on A, one on B
C16_Witness ==
    /\ joined = Clients
    /\ sendClosed["c2"]
    /\ ClientCount = 2
    /\ ClientCountForDocument("A") = 1
    /\ ClientCountForDocument("B") = 1
    /\ ClientCountForDocument("C") = 0

\* C19: bytes that do not decode, broadcast with no sender, are enqueued
\* unchanged to every registered client with room, whatever its document,
\* and no Document is created or modified.
C19_LegacyToAll ==
    [][\A m \in BroadcastInputs :
          (BroadcastStep /\ HandleBroadcast(m, NoClient) /\ ~m.json) =>
              /\ documents' = documents
              /\ \A c \in Clients :
                    IF c \in clients /\ Len(send[c]) < SendCap
                        THEN /\ Len(send'[c]) = Len(send[c]) + 1
                             /\ SubSeq(send'[c], 1, Len(send[c])) = send[c]
                             /\ send'[c][Len(send'[c])].data = m
                    ELSE send'[c] = send[c]]_vars

\* plain text with no sender reached c2 (document A) and c3 (document B)
C19_Witness ==
    /\ lastEvent = Event("broadcast", NoClient, "legacy")
    /\ {"c2", "c3"} \subseteq clients
    /\ send["c2"] # <<>>
    /\ ~send["c2"][Len(send["c2"])].data.json
    /\ send["c3"] # <<>>
    /\ ~send["c3"][Len(send["c3"])].data.json

\* an operation message the hub stamped and fanned out for document X
IsStampedOp(e, X) ==
    /\ e.routedFor = X
    /\ e.data.json
    /\ e.data.msg.type = MsgTypeOperation

StampedVersion(e) == e.data.msg.operation.version

\* C17: the operation messages for one document sit in every queue with
\* strictly increasing stamped versions, in the order the hub emitted them,
\* whatever operation and content broadcasts came in between.
C17_StampedVersionsIncrease ==
    \A c \in Clients : \A i, j \in 1..Len(send[c]) : \A X \in DocIDs :
        (i < j /\ IsStampedOp(send[c][i], X) /\ IsStampedOp(send[c][j], X)) =>
            StampedVersion(send[c][i]) < StampedVersion(send[c][j])

\* c2 holds the operations stamped 1 and 3; its own content message, which
\* it is not sent, took version 2
C17_Witness ==
    /\ Len(send["c2"]) = 2
    /\ IsStampedOp(send["c2"][1], "A") /\ StampedVersion(send["c2"][1]) = 1
    /\ IsStampedOp(send["c2"][2], "A") /\ StampedVersion(send["c2"][2]) = 3
    /\ documents["A"].version = 3

\* C18: the hub applies each operation in the step that accepts its
\* broadcast, and two operation messages for a document that two clients
\* both hold are held by both in the same order, the earlier applied first.
C18_SameOrderForAll ==
    /\ [][\A m \in OrderMessages, s \in OrderSenders :
            (BroadcastStep /\ HandleBroadcast(m, s)
                /\ IsOperationMessage(m) /\ OperationApplies(m)) =>
              documents'[m.msg.document_id].content =
                  Apply(DocumentFor(m.msg.document_id).content, m.msg.operation).doc]_vars
    /\ [](\A c, d \in Clients : \A X \in DocIDs :
            \A i, j \in 1..Len(send[c]) : \A k, l \in 1..Len(send[d]) :
                (/\ c # d /\ i < j
                 /\ IsStampedOp(send[c][i], X) /\ IsStampedOp(send[c][j], X)
                 /\ send[d][k] = send[c][i]
                 /\ send[d][l] = send[c][j]) =>
                    /\ k < l
                    /\ StampedVersion(send[c][i]) < StampedVersion(send[c][j]))

\* c1 and c2 hold the same two operation messages, in the same order
C18_Witness ==
    /\ Len(send["c1"]) = 2
    /\ send["c1"] = send["c2"]
    /\ IsStampedOp(send["c1"][1], "A")
    /\ IsStampedOp(send["c1"][2], "A")
    /\ send["c1"][1].data.msg.operation.text # send["c1"][2].data.msg.operation.text

\* the broadcast of m leads to a fan-out, and the clients it is meant for
FansOut(m) ==
    \/ ~m.json
    \/ m.msg.document_id = ""
    \/ IsOperationMessage(m) /\ OperationApplies(m)
    \/ m.msg.type = MsgTypeContent /\ m.msg.content # <<>>
    \/ m.msg.type \notin {MsgTypeOperation, MsgTypeContent}

EligibleFor(m, s) ==
    IF ~m.json \/ m.msg.document_id = "" THEN clients
    ELSE {d \in clients : DocumentIDOf(d) = m.msg.document_id /\ d # s}

\* C11: with the loop running, a Register, Unregister or Broadcast event
\* that is there to be handled can be handled whatever the queues hold (the
\* handler never waits on a queue); and a fan-out that meets a full queue
\* still enqueues the message to every other eligible client with room.
C11_HubNeverBlocks ==
    /\ [](hubRunning =>
            /\ \A c \in Clients \ joined : ENABLED HandleRegister(c)
            /\ \A c \in Clients : unregPending[c] > 0 => ENABLED HandleUnregister(c)
            /\ \A m \in S5Messages :
                  /\ ENABLED HandleBroadcast(m, NoClient)
                  /\ \A s \in joined : ~readerDone[s] => ENABLED HandleBroadcast(m, s))
    /\ [][\A m \in S5Messages, s \in Senders :
            (BroadcastStep /\ HandleBroadcast(m, s) /\ FansOut(m)
                /\ \E c \in EligibleFor(m, s) : Len(send[c]) = SendCap) =>
              \A d \in EligibleFor(m, s) :
                  Len(send[d]) < SendCap =>
                      /\ Len(send'[d]) = Len(send[d]) + 1
                      /\ send'[d][Len(send'[d])].data.msg.type = m.msg.type]_vars

\* a fan-out for document A found c1's queue full and still reached c2
C11_Witness ==
    /\ lastEvent = Event("broadcast", NoClient, "content")
    /\ "c1" \in clients
    /\ "c1" \in fullSeen
    /\ Len(send["c1"]) = SendCap
    /\ "c2" \in clients
    /\ send["c2"] # <<>>
    /\ send["c2"][Len(send["c2"])].data.msg.type = MsgTypeContent

\* C12: once Shutdown is called the hub loop exits; from then on h.clients is
\* empty (ClientCount is 0) and every client that had registered has a closed
\* send channel; and the WritePump of each of them gets to see the closed
\* channel and returns.
C12_ShutdownClosesAll ==
    /\ quitClosed ~> ~hubRunning
    /\ [](~hubRunning =>
            /\ clients = {}
            /\ ClientCount = 0
            /\ \A c \in joined : sendClosed[c])
    /\ \A c \in Clients :
          (~hubRunning /\ c \in joined) ~> (writerExit[c] = "closed_queue")

\* C13: once Shutdown is called, every ReadPump has ended and returned from
\* its Unregister, every WritePump has returned, and no goroutine started
\* for a full queue is still waiting in Unregister.
C13_NoActorLeftBlocked ==
    quitClosed ~>
        \A c \in joined :
            /\ readerDone[c]
            /\ unregPending[c] = 0
            /\ writerExit[c] # "running"

\* a structured message for a document that is neither an operation message
\* with an operation nor a content message with content
IsOtherMessage(m) ==
    /\ m.json
    /\ m.msg.document_id # ""
    /\ ~(m.msg.type = MsgTypeOperation /\ m.msg.operation # NilOp)
    /\ ~(m.msg.type = MsgTypeContent /\ m.msg.content # <<>>)

\* queue is the queue before with entry data appended
Appended(queue, before, data) ==
    /\ Len(queue) = Len(before) + 1
    /\ SubSeq(queue, 1, Len(before)) = before
    /\ queue[Len(queue)].data = data

\* C31: a message with document_id X that is neither an operation message
\* with an operation nor a content message with non-empty content (content
\* with empty content, operation without operation, user_count) is enqueued
\* as the original bytes to every registered client of X except the sender.
C31_OtherMessagesFannedOutRaw ==
    [][\A m \in BroadcastInputs, s \in Senders :
          (BroadcastStep /\ HandleBroadcast(m, s) /\ IsOtherMessage(m)) =>
              \A c \in clients :
                  (/\ DocumentIDOf(c) = m.msg.document_id /\ c # s
                   /\ Len(send[c]) < SendCap) =>
                      Appended(send'[c], send[c], m)]_vars

IsContentMessage(m) ==
    /\ m.json
    /\ m.msg.document_id # ""
    /\ m.msg.type = MsgTypeContent
    /\ m.msg.content # <<>>

C34_UserCountOnlyForAffectedDocument ==
    [][\A c \in Clients :
          (HandleRegister(c) \/ HandleUnregister(c)) =>
              \A y \in Clients :
                  DocumentIDOf(y) # DocumentIDOf(c) => send'[y] = send[y]]_vars

\* C37: handling a Broadcast never changes h.clients and never closes a send
\* channel, even when a target's buffer is full; h.clients changes only in
\* the register, unregister and quit cases, and a client found full leaves
\* h.clients only when a later Unregister of it is handled (or on quit).
C37_BroadcastLeavesClientSet ==
    [][/\ BroadcastStep => (clients' = clients /\ sendClosed' = sendClosed)
       /\ clients' # clients =>
              \/ \E c \in Clients : HandleRegister(c) \/ HandleUnregister(c)
              \/ HandleQuit
       /\ \A c \in clients \ clients' : HandleUnregister(c) \/ HandleQuit]_vars

\* a fan-out has found the buffer of c full: c is still registered, its
\* channel open, and an Unregister of c is waiting for the hub loop
C37_Witness ==
    /\ lastEvent.kind = "broadcast"
    /\ \E c \in fullSeen :
          /\ c \in clients
          /\ ~sendClosed[c]
          /\ Len(send[c]) = SendCap
          /\ unregPending[c] > 0

\* C39: with each client registered at most once, the hub never enqueues to
\* a closed send channel and never closes a send channel twice; a channel is
\* closed exactly when its client leaves h.clients.
C39_ClosedExactlyOnLeaving ==
    /\ [](\A c \in Clients :
            /\ c \in clients => ~sendClosed[c]
            /\ c \in joined \ clients => sendClosed[c]
            /\ c \notin joined => ~sendClosed[c])
    /\ [][\A c \in Clients :
            /\ send'[c] # send[c] /\ Len(send'[c]) > Len(send[c]) =>
                  ~sendClosed[c] /\ ~sendClosed'[c]
            /\ sendClosed[c] => sendClosed'[c]
            /\ (~sendClosed[c] /\ sendClosed'[c]) <=>
                  (c \in clients /\ c \notin clients')
            /\ (HandleUnregister(c) /\ sendClosed[c]) => c \notin clients]_vars

\* c1 was unregistered for a full buffer and its channel closed, while c2 is
\* registered with an open one and the hub loop is running
C39_Witness ==
    /\ "c1" \in joined \ clients
    /\ sendClosed["c1"]
    /\ "c1" \in fullSeen
    /\ "c2" \in clients
    /\ ~sendClosed["c2"]
    /\ hubRunning

\* C33: when a user_count push after a Register or Unregister finds a
\* client's buffer full, the client is scheduled for unregistration and is
\* eventually removed from h.clients, also when no broadcast is ever fanned
\* out to it afterwards.
C33_UserCountFullQueueEvicted ==
    \A c \in Clients : (c \in countSkipped /\ c \in clients) ~> (c \notin clients)

\* everything enqueued to c that has not been lost, oldest first: what its
\* WritePump has written, what it holds, and what is still in the channel
Stream(frames, held, queue) ==
    LET written == [i \in 1..Len(frames) |-> frames[i]]
        RECURSIVE Flat(_)
        Flat(fs) == IF fs = <<>> THEN <<>> ELSE Head(fs) \o Flat(Tail(fs))
    IN  Flat(written) \o (IF held.has THEN <<held.data>> ELSE <<>>)
            \o [i \in 1..Len(queue) |-> queue[i].data]

IsPrefix(x, y) == Len(x) <= Len(y) /\ SubSeq(y, 1, Len(x)) = x

\* C35: the WritePump delivers a client's messages to the connection in the
\* order the hub enqueued them, and every frame it writes carries exactly one
\* enqueued message, also when several were waiting when it woke.
C35_OneMessagePerFrameInOrder ==
    /\ [](\A c \in Clients : \A i \in 1..Len(wFrames[c]) : Len(wFrames[c][i]) = 1)
    /\ [][\A c \in Clients :
            IsPrefix(Stream(wFrames[c], wHeld[c], send[c]),
                     Stream(wFrames'[c], wHeld'[c], send'[c]))]_vars

\* C38: in the quit case the hub closes every registered client's send
\* channel before it closes any client's connection.
C38_QueuesClosedBeforeTransports ==
    (closing.pc = "loop" /\ closing.visited # {}) =>
        \A c \in clients : sendClosed[c]

\* C40: once an operation message has been dropped for a client at a full
\* buffer, the hub enqueues no later operation message for that document to
\* that client.
C40_NoOperationAfterDrop ==
    [][\A c \in opDropped :
          (BroadcastStep /\ lastEvent'.path = "op_applied") =>
              send'[c] = send[c]]_vars

-----------------------------------------------------------------------------
(* Claims about editors and backpressure *)

\* both editors are registered, the hub has handled both their messages,
\* each has applied the operation relayed to it, nothing is left in a queue
\* and no queue was ever found full
SyncSettled ==
    /\ Participants \subseteq clients
    /\ \A p \in Participants :
          /\ pOut[p].phase = "handled"
          /\ pApplied[p] = 1
          /\ send[p] = <<>>
    /\ fullSeen = {}

\* C2: two editors of one document that each edit the version-0 text, send
\* their operation and apply the relayed operations as received end, once
\* everything is handled and delivered, with the same text, which is also
\* the hub Document's content.
C2_ConcurrentEditsConverge ==
    SyncSettled =>
        /\ pText["c1"] = pText["c2"]
        /\ pText["c1"] = documents["A"].content

\* a fan-out that finds a registered client's queue full leads to the
\* client's removal from h.clients and to its send channel being closed
EvictionFollowsFullQueue ==
    \A c \in Clients : (c \in fullSeen) ~> (c \notin clients /\ sendClosed[c])

====
